---- MODULE Spec2Model ----
(***************************************************************************)
(* Rush Hour search engine of QuaMon-AI: Vehicle, Board, State, Node and   *)
(* the four strategies BfsSolver, DfsSolver, UcsSolver and AStarSolver.    *)
(*                                                                         *)
(* A dict is a sequence of <<key, value>> items in insertion order.  A     *)
(* grid is a function row -> column -> character, rows and columns         *)
(* numbered from 0 as in the source.  A Node is identified by its index    *)
(* in the sequence nodes of all Node objects created; parent 0 is None.    *)
(***************************************************************************)
EXTENDS Integers, Sequences, FiniteSets, TLC

VARIABLES board, initial_state, strategy, pc, nodes, frontier, explored,
          nodes_explored, total_nodes, current, result,
          board_file, run, returns, avg_metrics, objects

(* board_file is the text of the board file, run the number of             *)
(* solve_with_metrics calls begun, returns what they returned, avg_metrics *)
(* what solve_with_multiple_runs returned, objects the Vehicle, dict and   *)
(* State objects where they are followed by reference                      *)
vars == <<board, initial_state, strategy, pc, nodes, frontier, explored,
          nodes_explored, total_nodes, current, result,
          board_file, run, returns, avg_metrics, objects>>

(* Board.__init__: self.width = 6, self.height = 6 *)
Width == 6
Height == 6

(* the value None, written as the empty tuple: no path, Board, State or    *)
(* dict of the program is empty; and the character '.'                     *)
None == <<>>
Empty == "."

(* bounds of the boards the searches are run on *)
MaxBlockers == 2
PoolSize == 5

Cols == 0 .. (Width - 1)
Rows == 0 .. (Height - 1)

(* Op applied to v, with v evaluated once before Op is *)
With(v, Op(_)) == CHOOSE r \in {Op(x) : x \in {v}} : TRUE

Range(seq) == {seq[i] : i \in 1 .. Len(seq)}

(***************************************************************************)
(* Vehicle                                                                 *)
(***************************************************************************)
Vehicle(id, orientation, x, y, length) ==
  [id |-> id, orientation |-> orientation, x |-> x, y |-> y, length |-> length]

(* Vehicle.__eq__ *)
VehicleEq(a, b) ==
  /\ a.id = b.id
  /\ a.orientation = b.orientation
  /\ a.x = b.x
  /\ a.y = b.y
  /\ a.length = b.length

(* the cells a vehicle covers, as <<column, row>> *)
Cells(v) ==
  IF v.orientation = "h"
    THEN {<<v.x + i, v.y>> : i \in 0 .. (v.length - 1)}
    ELSE {<<v.x, v.y + i>> : i \in 0 .. (v.length - 1)}

(***************************************************************************)
(* dict helpers                                                            *)
(***************************************************************************)
Keys(d) == {d[i][1] : i \in 1 .. Len(d)}
Values(d) == {d[i][2] : i \in 1 .. Len(d)}
IndexOf(d, k) == CHOOSE i \in 1 .. Len(d) : d[i][1] = k
Get(d, k) == d[IndexOf(d, k)][2]

(***************************************************************************)
(* Board.load_from_file and Board.__init__.  A board file is the sequence  *)
(* of its lines, a line the sequence of its characters.                    *)
(***************************************************************************)
(* padded_line = (line + '.' * self.width)[:self.width] *)
PaddedLine(line) == SubSeq(line \o [i \in 1 .. Width |-> Empty], 1, Width)

(* grid: one padded line for every line of the file *)
ReadGrid(file) == [r \in 1 .. Len(file) |-> PaddedLine(file[r])]

(* raster order of the scan: r outer, c inner *)
CellAt(n) == <<n % Width, n \div Width>>

RECURSIVE ScanIds(_, _, _)
ScanIds(grid, n, ids) ==
  IF n >= Len(grid) * Width THEN ids
  ELSE LET c == CellAt(n)[1]
           r == CellAt(n)[2]
           char == grid[r + 1][c + 1]
       IN  IF char # Empty /\ char \notin Range(ids)
             THEN ScanIds(grid, n + 1, Append(ids, char))
             ELSE ScanIds(grid, n + 1, ids)

CoordsOf(grid, id) ==
  {<<c, r>> \in Cols \X (0 .. (Len(grid) - 1)) : grid[r + 1][c + 1] = id}

(* tuple order of coords.sort() *)
CoordLe(a, b) == a[1] < b[1] \/ (a[1] = b[1] /\ a[2] <= b[2])
FirstCoord(cs) == CHOOSE a \in cs : \A b \in cs : CoordLe(a, b)
LastCoord(cs) == CHOOSE a \in cs : \A b \in cs : CoordLe(b, a)

LoadVehicle(grid, id) ==
  LET coords == CoordsOf(grid, id)
      first == FirstCoord(coords)
      last == LastCoord(coords)
  IN  Vehicle(id, IF first[2] = last[2] THEN "h" ELSE "v",
              first[1], first[2], Cardinality(coords))

LoadFromFile(file) ==
  LET grid == ReadGrid(file)
      ids == ScanIds(grid, 0, <<>>)
  IN  [i \in 1 .. Len(ids) |-> <<ids[i], LoadVehicle(grid, ids[i])>>]

(* the goal always at the default position *)
Board_DefaultGoal(file) ==
  [width |-> Width, height |-> Height, vehicles |-> LoadFromFile(file),
   goal_pos |-> <<5, 2>>]

(* Board.__init__ *)
Board(file) ==
  LET vehicles == LoadFromFile(file)
  IN  [width |-> Width, height |-> Height, vehicles |-> vehicles,
       goal_pos |-> IF "X" \in Keys(vehicles)
                      THEN <<Width - 1, Get(vehicles, "X").y>>
                      ELSE <<5, 2>>]

(***************************************************************************)
(* State                                                                   *)
(***************************************************************************)
(* frozenset(self.vehicles.items()): the items without their order *)
FrozenItems(vehicles) == {vehicles[i] : i \in 1 .. Len(vehicles)}

(* hash(frozenset(...)): the hash value stands for the frozenset hashed;   *)
(* PyHash below is the 64-bit number behind it.                            *)
Hash(vehicles) == FrozenItems(vehicles)

(* State.__init__ *)
State(vehicles) == [vehicles |-> vehicles, hash |-> Hash(vehicles)]

(* State.__eq__ *)
StateEq(s, t) == s.hash = t.hash

(* State.__hash__ *)
StateHash(s) == s.hash

(* State.is_goal_state *)
IsGoalState(state, b) ==
  LET red_car == Get(state.vehicles, "X")
  IN  /\ red_car.x + red_car.length - 1 = b.goal_pos[1]
      /\ red_car.y = b.goal_pos[2]

(* State._create_grid: a later vehicle of the dict overwrites an earlier one *)
CreateGrid(state, b) ==
  [r \in 0 .. (b.height - 1) |->
    [c \in 0 .. (b.width - 1) |->
      LET covering == {i \in 1 .. Len(state.vehicles) :
                         <<c, r>> \in Cells(state.vehicles[i][2])}
      IN  IF covering = {} THEN Empty
          ELSE state.vehicles[CHOOSE i \in covering :
                                \A j \in covering : j <= i][2].id]]

(* the probe to the right without the test of the grid cell *)
RightOK_NoGridTest(vehicle, grid, b, i) ==
  vehicle.x + vehicle.length - 1 + i < b.width

(* the probe downwards stopping one row early *)
DownOK_OffByOne(vehicle, grid, b, i) ==
  /\ vehicle.y + vehicle.length - 1 + i < b.height - 1
  /\ grid[vehicle.y + vehicle.length - 1 + i][vehicle.x] = Empty

(* the conditions of the four probing loops of State.get_successors *)
RightOK(vehicle, grid, b, i) ==
  /\ vehicle.x + vehicle.length - 1 + i < b.width
  /\ grid[vehicle.y][vehicle.x + vehicle.length - 1 + i] = Empty

(* the leftmost column is never entered *)
LeftOK_OffByOne(vehicle, grid, b, i) ==
  /\ vehicle.x - i > 0
  /\ grid[vehicle.y][vehicle.x - i] = Empty

(* state.py line 52 *)
LeftOK(vehicle, grid, b, i) ==
  /\ vehicle.x - i >= 0
  /\ grid[vehicle.y][vehicle.x - i] = Empty

DownOK(vehicle, grid, b, i) ==
  /\ vehicle.y + vehicle.length - 1 + i < b.height
  /\ grid[vehicle.y + vehicle.length - 1 + i][vehicle.x] = Empty

(* the top row is never entered *)
UpOK_OffByOne(vehicle, grid, b, i) ==
  /\ vehicle.y - i > 0
  /\ grid[vehicle.y - i][vehicle.x] = Empty

(* state.py line 69 *)
UpOK(vehicle, grid, b, i) ==
  /\ vehicle.y - i >= 0
  /\ grid[vehicle.y - i][vehicle.x] = Empty

(* for i in range(1, n): the number of iterations before the break *)
RECURSIVE CountRight(_, _, _, _)
CountRight(vehicle, grid, b, i) ==
  IF i < b.width /\ RightOK(vehicle, grid, b, i)
    THEN 1 + CountRight(vehicle, grid, b, i + 1) ELSE 0

RECURSIVE CountLeft(_, _, _, _)
CountLeft(vehicle, grid, b, i) ==
  IF i < b.width /\ LeftOK(vehicle, grid, b, i)
    THEN 1 + CountLeft(vehicle, grid, b, i + 1) ELSE 0

RECURSIVE CountDown(_, _, _, _)
CountDown(vehicle, grid, b, i) ==
  IF i < b.height /\ DownOK(vehicle, grid, b, i)
    THEN 1 + CountDown(vehicle, grid, b, i + 1) ELSE 0

RECURSIVE CountUp(_, _, _, _)
CountUp(vehicle, grid, b, i) ==
  IF i < b.height /\ UpOK(vehicle, grid, b, i)
    THEN 1 + CountUp(vehicle, grid, b, i + 1) ELSE 0

(* the move applied across the vehicle's axis *)
MovedVehicles_OffAxis(vehicles, vid, dx, dy) ==
  [i \in 1 .. Len(vehicles) |->
    IF vehicles[i][1] = vid
      THEN <<vid, [vehicles[i][2] EXCEPT !.x = @ + dy, !.y = @ + dx]>>
      ELSE vehicles[i]]

(* the move applied twice to the copy *)
MovedVehicles_Twice(vehicles, vid, dx, dy) ==
  [i \in 1 .. Len(vehicles) |->
    IF vehicles[i][1] = vid
      THEN <<vid, [vehicles[i][2] EXCEPT !.x = @ + 2 * dx, !.y = @ + 2 * dy]>>
      ELSE vehicles[i]]

(* new_vehicles = copy.deepcopy(self.vehicles); new_vehicles[vid].x += dx  *)
(* (.y += dy): the values of the copy                                      *)
MovedVehicles(vehicles, vid, dx, dy) ==
  [i \in 1 .. Len(vehicles) |->
    IF vehicles[i][1] = vid
      THEN <<vid, [vehicles[i][2] EXCEPT !.x = @ + dx, !.y = @ + dy]>>
      ELSE vehicles[i]]

Copies(n, s) == [j \in 1 .. n |-> s]

(* the moves left or up put before the moves right or down *)
VehicleSuccessors_DecreasingFirst(state, grid, b, idx) ==
  LET vid == state.vehicles[idx][1]
      vehicle == state.vehicles[idx][2]
  IN  IF vehicle.orientation = "h"
        THEN Copies(CountLeft(vehicle, grid, b, 1),
                    State(MovedVehicles(state.vehicles, vid, -1, 0)))
             \o Copies(CountRight(vehicle, grid, b, 1),
                       State(MovedVehicles(state.vehicles, vid, 1, 0)))
        ELSE Copies(CountUp(vehicle, grid, b, 1),
                    State(MovedVehicles(state.vehicles, vid, 0, -1)))
             \o Copies(CountDown(vehicle, grid, b, 1),
                       State(MovedVehicles(state.vehicles, vid, 0, 1)))

(* the body of "for vid, vehicle in self.vehicles.items()" for one item:   *)
(* every iteration of a probing loop appends the same one-cell move        *)
VehicleSuccessors(state, grid, b, idx) ==
  LET vid == state.vehicles[idx][1]
      vehicle == state.vehicles[idx][2]
  IN  IF vehicle.orientation = "h"
        THEN Copies(CountRight(vehicle, grid, b, 1),
                    State(MovedVehicles(state.vehicles, vid, 1, 0)))
             \o Copies(CountLeft(vehicle, grid, b, 1),
                       State(MovedVehicles(state.vehicles, vid, -1, 0)))
        ELSE Copies(CountDown(vehicle, grid, b, 1),
                    State(MovedVehicles(state.vehicles, vid, 0, 1)))
             \o Copies(CountUp(vehicle, grid, b, 1),
                       State(MovedVehicles(state.vehicles, vid, 0, -1)))

RECURSIVE SuccessorsFrom(_, _, _, _)
SuccessorsFrom(state, grid, b, idx) ==
  IF idx > Len(state.vehicles) THEN <<>>
  ELSE VehicleSuccessors(state, grid, b, idx)
       \o SuccessorsFrom(state, grid, b, idx + 1)

(* State.get_successors *)
GetSuccessors(state, b) ==
  With(CreateGrid(state, b), LAMBDA grid : SuccessorsFrom(state, grid, b, 1))

(***************************************************************************)
(* Node                                                                    *)
(***************************************************************************)
(* the parent not kept: every Node a root *)
Node_NoParent(state, parent, path_cost) ==
  [state |-> state, parent |-> 0, action |-> None, path_cost |-> path_cost]

(* Node.__init__; parent is the index of the parent Node, 0 for None *)
Node(state, parent, path_cost) ==
  [state |-> state, parent |-> parent, action |-> None, path_cost |-> path_cost]

(* the comparison turned round *)
NodeLt_Reversed(a, b) == a.path_cost > b.path_cost

(* Node.__lt__ *)
NodeLt(a, b) == a.path_cost < b.path_cost

(***************************************************************************)
(* heapq.heappush and heapq.heappop on a list, as the solvers call them.   *)
(* An item of the UCS heap is a Node, an item of the A* heap a tuple       *)
(* (priority, Node); positions are counted from 0.                         *)
(***************************************************************************)
(* item < item: Node.__lt__, and for tuples the first differing element    *)
(* decides (two Nodes are equal only if they are the same object)          *)
ItemLt(ns, kind, a, b) ==
  IF kind = "ucs" THEN NodeLt(ns[a], ns[b])
  ELSE IF a[1] # b[1] THEN a[1] < b[1]
  ELSE IF a[2] = b[2] THEN FALSE
  ELSE NodeLt(ns[a[2]], ns[b[2]])

RECURSIVE SiftDown(_, _, _, _, _, _)
SiftDown(ns, kind, heap, startpos, pos, newitem) ==
  IF pos > startpos /\ ItemLt(ns, kind, newitem, heap[((pos - 1) \div 2) + 1])
    THEN With([heap EXCEPT ![pos + 1] = heap[((pos - 1) \div 2) + 1]],
              LAMBDA h : SiftDown(ns, kind, h, startpos, (pos - 1) \div 2, newitem))
    ELSE [heap EXCEPT ![pos + 1] = newitem]

RECURSIVE SiftUp(_, _, _, _, _, _)
SiftUp(ns, kind, heap, startpos, pos, newitem) ==
  LET endpos == Len(heap)
      leftpos == 2 * pos + 1
      rightpos == leftpos + 1
      childpos == IF rightpos < endpos
                     /\ ~ItemLt(ns, kind, heap[leftpos + 1], heap[rightpos + 1])
                    THEN rightpos ELSE leftpos
  IN  IF leftpos < endpos
        THEN With([heap EXCEPT ![pos + 1] = heap[childpos + 1]],
                  LAMBDA h : SiftUp(ns, kind, h, startpos, childpos, newitem))
        ELSE SiftDown(ns, kind, heap, startpos, pos, newitem)

(* frontier.append(item): the item put last, the list not kept a heap *)
HeapPush_Append(ns, kind, heap, item) == Append(heap, item)

HeapPush(ns, kind, heap, item) ==
  SiftDown(ns, kind, Append(heap, item), 0, Len(heap), item)

(* frontier.pop(): the last item of the list instead of the smallest *)
HeapPop_Last(ns, kind, heap) ==
  <<heap[Len(heap)], SubSeq(heap, 1, Len(heap) - 1)>>

(* <<the item returned, the heap left>> *)
HeapPop(ns, kind, heap) ==
  LET lastelt == heap[Len(heap)]
      rest == SubSeq(heap, 1, Len(heap) - 1)
  IN  IF rest # <<>>
        THEN <<rest[1], SiftUp(ns, kind, [rest EXCEPT ![1] = lastelt], 0, 0, lastelt)>>
        ELSE <<lastelt, rest>>

(***************************************************************************)
(* set and dict of States: a key is found by __hash__ and __eq__           *)
(***************************************************************************)
SameKey(s, t) == StateHash(s) = StateHash(t) /\ StateEq(s, t)
InExplored(s, keys) == \E e \in keys : SameKey(e, s)
KeyOf(s, keys) == CHOOSE e \in keys : SameKey(e, s)

(* the State is not marked as visited *)
SetAdd_Forgets(set, s) == set

(* explored.add(s) *)
SetAdd(set, s) == IF InExplored(s, set) THEN set ELSE set \cup {s}

(* explored[s] and explored[s] = cost *)
DictGet(d, s) == d[KeyOf(s, DOMAIN d)]
DictSet(d, s, cost) ==
  IF InExplored(s, DOMAIN d)
    THEN [d EXCEPT ![KeyOf(s, DOMAIN d)] = cost]
    ELSE [e \in (DOMAIN d) \cup {s} |-> IF e = s THEN cost ELSE d[e]]

(***************************************************************************)
(* Solver                                                                  *)
(***************************************************************************)
(* the path left in the order it was collected, goal first *)
RECURSIVE ReconstructPath_NotReversed(_, _)
ReconstructPath_NotReversed(ns, node) ==
  IF node = 0 THEN <<>>
  ELSE <<ns[node].state>> \o ReconstructPath_NotReversed(ns, ns[node].parent)

(* Solver._reconstruct_path *)
RECURSIVE ReconstructPath(_, _)
ReconstructPath(ns, node) ==
  IF node = 0 THEN <<>>
  ELSE Append(ReconstructPath(ns, ns[node].parent), ns[node].state)

(* the search in progress: the locals of solve() and the two counters *)
Search(ns, fr, ex, total, goal) ==
  [nodes |-> ns, frontier |-> fr, explored |-> ex, total_nodes |-> total,
   goal |-> goal]

(* frontier.appendleft(successor_node): the successor put first *)
RECURSIVE BfsExpand_Front(_, _, _, _, _)
BfsExpand_Front(b, succs, i, current_node, s) ==
  IF i > Len(succs) THEN s
  ELSE IF InExplored(succs[i], s.explored)
    THEN BfsExpand_Front(b, succs, i + 1, current_node, s)
  ELSE LET ns == Append(s.nodes, Node(succs[i], current_node, 0))
       IN  IF IsGoalState(succs[i], b)
             THEN Search(ns, s.frontier, s.explored, s.total_nodes + 1, Len(ns))
             ELSE With(Search(ns, <<Len(ns)>> \o s.frontier,
                              SetAdd(s.explored, succs[i]),
                              s.total_nodes + 1, 0),
                       LAMBDA t : BfsExpand_Front(b, succs, i + 1, current_node, t))

(* BfsSolver.solve: the for loop over the successors of current_node;      *)
(* goal is the successor Node the loop returned from, 0 if it ran through  *)
RECURSIVE BfsExpand(_, _, _, _, _)
BfsExpand(b, succs, i, current_node, s) ==
  IF i > Len(succs) THEN s
  ELSE IF InExplored(succs[i], s.explored)
    THEN BfsExpand(b, succs, i + 1, current_node, s)
  ELSE LET ns == Append(s.nodes, Node(succs[i], current_node, 0))
       IN  IF IsGoalState(succs[i], b)
             THEN Search(ns, s.frontier, s.explored, s.total_nodes + 1, Len(ns))
             ELSE With(Search(ns, Append(s.frontier, Len(ns)),
                              SetAdd(s.explored, succs[i]),
                              s.total_nodes + 1, 0),
                       LAMBDA t : BfsExpand(b, succs, i + 1, current_node, t))

(* DfsSolver.solve: the for loop over the successors of current_node *)
RECURSIVE DfsExpand(_, _, _, _, _)
DfsExpand(b, succs, i, current_node, s) ==
  IF i > Len(succs) THEN s
  ELSE IF InExplored(succs[i], s.explored)
    THEN DfsExpand(b, succs, i + 1, current_node, s)
  ELSE LET ns == Append(s.nodes, Node(succs[i], current_node, 0))
       IN  IF IsGoalState(succs[i], b)
             THEN Search(ns, s.frontier, s.explored, s.total_nodes + 1, Len(ns))
             ELSE With(Search(ns, Append(s.frontier, Len(ns)),
                              SetAdd(s.explored, succs[i]),
                              s.total_nodes + 1, 0),
                       LAMBDA t : DfsExpand(b, succs, i + 1, current_node, t))

(* the first vid of the dict taken for the vehicle that moved *)
MovedVehicleId_First(parent_state, successor_state) == parent_state.vehicles[1][1]

(* the first vid of the parent's dict whose Vehicle differs in the successor *)
MovedVehicleId(parent_state, successor_state) ==
  LET differing == {i \in 1 .. Len(parent_state.vehicles) :
                      ~VehicleEq(parent_state.vehicles[i][2],
                                 Get(successor_state.vehicles,
                                     parent_state.vehicles[i][1]))}
  IN  parent_state.vehicles[CHOOSE i \in differing :
                              \A j \in differing : i <= j][1]

(* every move at the cost of one *)
MoveCost_Unit(parent_state, successor_state) == 1

(* move_cost = successor_state.vehicles[moved_vehicle_id].length *)
MoveCost(parent_state, successor_state) ==
  Get(successor_state.vehicles,
      MovedVehicleId(parent_state, successor_state)).length

(* every successor pushed, whatever its cost *)
Cheaper_Always(ex, successor_state, new_cost) == TRUE

(* a successor pushed also at the recorded cost *)
Cheaper_OrEqual(ex, successor_state, new_cost) ==
  \/ ~InExplored(successor_state, DOMAIN ex)
  \/ new_cost <= DictGet(ex, successor_state)

(* not in explored or new_cost < explored[successor_state] *)
Cheaper(ex, successor_state, new_cost) ==
  \/ ~InExplored(successor_state, DOMAIN ex)
  \/ new_cost < DictGet(ex, successor_state)

(* UcsSolver.solve: the for loop over the successors of current_node *)
RECURSIVE UcsExpand(_, _, _, _, _)
UcsExpand(b, succs, i, current_node, s) ==
  IF i > Len(succs) THEN s
  ELSE LET new_cost == s.nodes[current_node].path_cost
                         + MoveCost(s.nodes[current_node].state, succs[i])
           ns == Append(s.nodes, Node(succs[i], current_node, new_cost))
       IN  IF Cheaper(s.explored, succs[i], new_cost)
             THEN With(Search(ns, HeapPush(ns, "ucs", s.frontier, Len(ns)),
                              DictSet(s.explored, succs[i], new_cost),
                              s.total_nodes + 1, 0),
                       LAMBDA t : UcsExpand(b, succs, i + 1, current_node, t))
             ELSE UcsExpand(b, succs, i + 1, current_node, s)

(* the occupied cells counted, not the vehicles on them *)
BlockingHeuristic_Cells(state, b) ==
  LET red_car == Get(state.vehicles, "X")
      grid == CreateGrid(state, b)
  IN  Cardinality({j \in (red_car.x + red_car.length) .. (b.width - 1) :
                     grid[red_car.y][j] # Empty})

(* the row scanned from its first column, the target counted too *)
BlockingHeuristic_WholeRow(state, b) ==
  LET red_car == Get(state.vehicles, "X")
      grid == CreateGrid(state, b)
  IN  Cardinality({grid[red_car.y][j] :
                     j \in {i \in 0 .. (b.width - 1) : grid[red_car.y][i] # Empty}})

(* AStarSolver._blocking_heuristic *)
BlockingHeuristic(state, b) ==
  LET red_car == Get(state.vehicles, "X")
      grid == CreateGrid(state, b)
      blocking_cars == {grid[red_car.y][i] :
                          i \in {j \in (red_car.x + red_car.length) .. (b.width - 1) :
                                   grid[red_car.y][j] # Empty}}
  IN  Cardinality(blocking_cars)

(* priority = new_cost + heuristic_cost *)
Priority(new_cost, heuristic_cost) == new_cost + heuristic_cost

(* AStarSolver.solve: the for loop over the successors of current_node *)
RECURSIVE AStarExpand(_, _, _, _, _)
AStarExpand(b, succs, i, current_node, s) ==
  IF i > Len(succs) THEN s
  ELSE LET new_cost == s.nodes[current_node].path_cost
                         + MoveCost(s.nodes[current_node].state, succs[i])
           ns == Append(s.nodes, Node(succs[i], current_node, new_cost))
           priority == Priority(new_cost, BlockingHeuristic(succs[i], b))
       IN  IF Cheaper(s.explored, succs[i], new_cost)
             THEN With(Search(ns,
                              HeapPush(ns, "astar", s.frontier,
                                       <<priority, Len(ns)>>),
                              DictSet(s.explored, succs[i], new_cost),
                              s.total_nodes + 1, 0),
                       LAMBDA t : AStarExpand(b, succs, i + 1, current_node, t))
             ELSE AStarExpand(b, succs, i + 1, current_node, s)

(***************************************************************************)
(* The boards searched: the target X, horizontal of length 2 on row 2,     *)
(* with at most MaxBlockers of the first PoolSize vehicles of Pool, and    *)
(* the boards of Scenarios, each written as the grid of a board file.      *)
(***************************************************************************)
Pool ==
  << Vehicle("C", "v", 5, 2, 2),
     Vehicle("B", "h", 2, 4, 4),
     Vehicle("E", "h", 2, 2, 2),
     Vehicle("A", "v", 4, 1, 2),
     Vehicle("F", "v", 3, 0, 3),
     Vehicle("D", "h", 2, 0, 4),
     Vehicle("G", "h", 0, 5, 1) >>

Targets == {Vehicle("X", "h", 0, 2, 2), Vehicle("X", "h", 4, 2, 2)}

(* a board whose cheapest solution is not one of its shortest, and a board *)
(* whose target is not in row 2                                            *)
Scenarios ==
  { {Vehicle("X", "h", 0, 2, 2), Vehicle("P", "v", 4, 2, 2),
     Vehicle("Q", "h", 4, 1, 1), Vehicle("R", "h", 1, 4, 4)},
    {Vehicle("X", "h", 1, 4, 2), Vehicle("P", "v", 5, 3, 2)} }

Disjoint(vs) == \A v \in vs : \A w \in vs : v # w => Cells(v) \cap Cells(w) = {}

Placements ==
  {{x} \cup bs : x \in Targets,
                 bs \in {s \in SUBSET {Pool[i] : i \in 1 .. PoolSize} :
                           Cardinality(s) <= MaxBlockers}}

GridOf(vs) ==
  [r \in 1 .. Height |->
    [c \in 1 .. Width |->
      IF \E v \in vs : <<c - 1, r - 1>> \in Cells(v)
        THEN (CHOOSE v \in vs : <<c - 1, r - 1>> \in Cells(v)).id
        ELSE Empty]]

Grids == {GridOf(vs) : vs \in {p \in Placements \cup Scenarios : Disjoint(p)}}

Strategies == {"bfs", "dfs", "ucs", "astar"}

(* explored outside a call of solve(): the local does not exist; it is     *)
(* written as the empty container of the kind the strategy creates         *)
NoExplored == IF strategy \in {"bfs", "dfs"} THEN {} ELSE <<>>

(***************************************************************************)
(* main: board = Board(board_file); initial_state = State(board.vehicles); *)
(* solver = <strategy>Solver(board, initial_state)                         *)
(***************************************************************************)
Init ==
  /\ strategy \in Strategies
  /\ board_file \in Grids
  /\ board = Board(board_file)
  /\ initial_state = State(board.vehicles)
  /\ run = 0
  /\ returns = <<>>
  /\ avg_metrics = None
  /\ objects = None
  /\ pc = "solve"
  /\ nodes = <<>>
  /\ frontier = <<>>
  /\ explored = NoExplored
  /\ nodes_explored = 0
  /\ total_nodes = 0
  /\ current = 0
  /\ result = None

(* BfsSolver.solve, DfsSolver.solve: up to the while loop *)
UninformedStart(kind) ==
  /\ pc = "solve"
  /\ strategy = kind
  /\ nodes' = <<Node(initial_state, 0, 0)>>
  /\ IF IsGoalState(initial_state, board)
       THEN /\ result' = ReconstructPath(nodes', 1)
            /\ pc' = "done"
            /\ UNCHANGED <<frontier, explored, total_nodes>>
       ELSE /\ frontier' = <<1>>
            /\ explored' = {initial_state}
            /\ total_nodes' = 1
            /\ pc' = "loop"
            /\ UNCHANGED result
  /\ UNCHANGED <<board_file, run, returns, avg_metrics, objects,
                 board, initial_state, strategy, nodes_explored, current>>

BfsStart == UninformedStart("bfs")

DfsStart == UninformedStart("dfs")

(* the result of one pass of a while loop whose for loop ended in s *)
AfterExpand(s) ==
  /\ nodes' = s.nodes
  /\ frontier' = s.frontier
  /\ explored' = s.explored
  /\ total_nodes' = s.total_nodes
  /\ IF s.goal # 0
       THEN result' = ReconstructPath(s.nodes, s.goal) /\ pc' = "done"
       ELSE UNCHANGED <<result, pc>>

(* BfsSolver.solve: one pass of the while loop *)
BfsIterate ==
  /\ pc = "loop"
  /\ strategy = "bfs"
  /\ frontier # <<>>
  /\ current' = Head(frontier)
  /\ nodes_explored' = nodes_explored + 1
  /\ \E succs \in {GetSuccessors(nodes[Head(frontier)].state, board)} :
       \E s \in {BfsExpand(board, succs, 1, Head(frontier),
                            Search(nodes, Tail(frontier), explored, total_nodes, 0))} :
         AfterExpand(s)
  /\ UNCHANGED <<board_file, run, returns, avg_metrics, objects,
                 board, initial_state, strategy>>

(* DfsSolver.solve: one pass of the while loop *)
DfsIterate ==
  /\ pc = "loop"
  /\ strategy = "dfs"
  /\ frontier # <<>>
  /\ current' = frontier[Len(frontier)]
  /\ nodes_explored' = nodes_explored + 1
  /\ \E succs \in {GetSuccessors(nodes[frontier[Len(frontier)]].state, board)} :
       \E s \in {DfsExpand(board, succs, 1, frontier[Len(frontier)],
                            Search(nodes, SubSeq(frontier, 1, Len(frontier) - 1),
                                   explored, total_nodes, 0))} :
         AfterExpand(s)
  /\ UNCHANGED <<board_file, run, returns, avg_metrics, objects,
                 board, initial_state, strategy>>

(* UcsSolver.solve: up to the while loop *)
UcsStart ==
  /\ pc = "solve"
  /\ strategy = "ucs"
  /\ nodes' = <<Node(initial_state, 0, 0)>>
  /\ frontier' = <<1>>
  /\ explored' = [e \in {initial_state} |-> 0]
  /\ total_nodes' = 1
  /\ pc' = "loop"
  /\ UNCHANGED <<board_file, run, returns, avg_metrics, objects,
                 board, initial_state, strategy, nodes_explored, current, result>>

(* AStarSolver.solve: up to the while loop *)
AStarStart ==
  /\ pc = "solve"
  /\ strategy = "astar"
  /\ nodes' = <<Node(initial_state, 0, 0)>>
  /\ frontier' = << <<BlockingHeuristic(initial_state, board), 1>> >>
  /\ explored' = [e \in {initial_state} |-> 0]
  /\ total_nodes' = 1
  /\ pc' = "loop"
  /\ UNCHANGED <<board_file, run, returns, avg_metrics, objects,
                 board, initial_state, strategy, nodes_explored, current, result>>

(* the goal test skipped for the root node *)
GoalPopped_NotRoot(node) == node.parent # 0 /\ IsGoalState(node.state, board)

(* if current_node.state.is_goal_state(self.board) *)
GoalPopped(node) == IsGoalState(node.state, board)

(* UcsSolver.solve: one pass of the while loop *)
UcsIterate ==
  /\ pc = "loop"
  /\ strategy = "ucs"
  /\ frontier # <<>>
  /\ \E popped \in {HeapPop(nodes, "ucs", frontier)} :
         /\ current' = popped[1]
         /\ nodes_explored' = nodes_explored + 1
         /\ IF GoalPopped(nodes[popped[1]])
              THEN /\ result' = ReconstructPath(nodes, popped[1])
                   /\ pc' = "done"
                   /\ frontier' = popped[2]
                   /\ UNCHANGED <<nodes, explored, total_nodes>>
              ELSE \E succs \in {GetSuccessors(nodes[popped[1]].state, board)} :
                     \E s \in {UcsExpand(board, succs, 1, popped[1],
                                          Search(nodes, popped[2], explored,
                                                 total_nodes, 0))} :
                       AfterExpand(s)
  /\ UNCHANGED <<board_file, run, returns, avg_metrics, objects,
                 board, initial_state, strategy>>

(* AStarSolver.solve: one pass of the while loop *)
AStarIterate ==
  /\ pc = "loop"
  /\ strategy = "astar"
  /\ frontier # <<>>
  /\ \E popped \in {HeapPop(nodes, "astar", frontier)} :
     \E current_node \in {popped[1][2]} :
         /\ current' = current_node
         /\ nodes_explored' = nodes_explored + 1
         /\ IF GoalPopped(nodes[current_node])
              THEN /\ result' = ReconstructPath(nodes, current_node)
                   /\ pc' = "done"
                   /\ frontier' = popped[2]
                   /\ UNCHANGED <<nodes, explored, total_nodes>>
              ELSE \E succs \in {GetSuccessors(nodes[current_node].state, board)} :
                     \E s \in {AStarExpand(board, succs, 1, current_node,
                                            Search(nodes, popped[2], explored,
                                                   total_nodes, 0))} :
                       AfterExpand(s)
  /\ UNCHANGED <<board_file, run, returns, avg_metrics, objects,
                 board, initial_state, strategy>>

(* the while loop ends on the empty frontier: return None *)
ReturnNone ==
  /\ pc = "loop"
  /\ frontier = <<>>
  /\ pc' = "done"
  /\ result' = None
  /\ UNCHANGED <<board_file, run, returns, avg_metrics, objects,
                 board, initial_state, strategy, nodes, frontier, explored,
                 nodes_explored, total_nodes, current>>

Next ==
  \/ BfsStart
  \/ BfsIterate
  \/ DfsStart
  \/ DfsIterate
  \/ UcsStart
  \/ UcsIterate
  \/ AStarStart
  \/ AStarIterate
  \/ ReturnNone

Spec == Init /\ [][Next]_vars

(* solve() runs on the calling thread until it returns *)
FairSpec == Spec /\ WF_vars(Next)

(***************************************************************************)
(* Solver.solve_with_metrics and Solver.solve_with_multiple_runs           *)
(***************************************************************************)
(* the number of solve_with_metrics calls made on a board *)
MaxRuns == 2

(* what perf_counter, tracemalloc and psutil may measure for a call: a     *)
(* pair <<time, memory_mb>>                                                *)
Measurements == {<<1, 1>>, <<2, 3>>}

(* UcsSolver._calculate_total_cost, AStarSolver._calculate_total_cost: the *)
(* loop over range(1, len(solution)), up to the State at position n        *)
RECURSIVE SumOfLengths(_, _)
SumOfLengths(solution, n) ==
  IF n <= 1 THEN 0
  ELSE LET prev_state == solution[n - 1]
           curr_state == solution[n]
           differing == {i \in 1 .. Len(curr_state.vehicles) :
                           ~VehicleEq(curr_state.vehicles[i][2],
                                      Get(prev_state.vehicles,
                                          curr_state.vehicles[i][1]))}
       IN  SumOfLengths(solution, n - 1)
           + (IF differing = {} THEN 0
              ELSE curr_state.vehicles[CHOOSE i \in differing :
                                         \A j \in differing : i <= j][2].length)

(* self._calculate_total_cost(solution) of the solver class kind *)
CalculateTotalCost(kind, solution) ==
  IF Len(solution) <= 1 THEN 0
  ELSE IF kind \in {"bfs", "dfs"} THEN Len(solution) - 1
  ELSE SumOfLengths(solution, Len(solution))

(* the counters kept from the call before *)
ResetCounters_Kept == [nodes_explored |-> nodes_explored, total_nodes |-> total_nodes]

(* solve_with_metrics: self.nodes_explored = 0; self.total_nodes = 0 *)
ResetCounters == [nodes_explored |-> 0, total_nodes |-> 0]

(* solve_with_metrics up to the call of solve(), on the solver used before *)
(* or on one just constructed (Solver.__init__ sets both counters to 0)    *)
SolveWithMetrics ==
  /\ pc = "call"
  /\ run < MaxRuns
  /\ run' = run + 1
  /\ \E fresh \in BOOLEAN :
       /\ nodes_explored' = IF fresh THEN 0 ELSE ResetCounters.nodes_explored
       /\ total_nodes' = IF fresh THEN 0 ELSE ResetCounters.total_nodes
  /\ pc' = "solve"
  /\ UNCHANGED <<board, initial_state, strategy, nodes, frontier, explored,
                 current, result, board_file, returns, avg_metrics, objects>>

(* solve_with_metrics after solve() returned: the metrics dict; the locals *)
(* of solve() are gone                                                     *)
MetricsReturn ==
  /\ pc = "done"
  /\ run > 0
  /\ \E m \in Measurements :
       returns' = Append(returns,
         [solution |-> result,
          metrics |-> [time |-> m[1],
                       memory_mb |-> m[2],
                       nodes_explored |-> nodes_explored,
                       total_nodes |-> total_nodes,
                       solution_length |-> IF result # None THEN Len(result) ELSE 0,
                       total_cost |-> IF result # None
                                        THEN CalculateTotalCost(strategy, result)
                                        ELSE 0]])
  /\ pc' = "call"
  /\ nodes' = <<>>
  /\ frontier' = <<>>
  /\ explored' = NoExplored
  /\ current' = 0
  /\ result' = None
  /\ UNCHANGED <<board, initial_state, strategy, nodes_explored, total_nodes,
                 board_file, run, avg_metrics, objects>>

(* results of solve_with_multiple_runs: the metrics of the solved runs *)
RECURSIVE Results(_, _)
Results(rets, n) ==
  IF n = 0 THEN <<>>
  ELSE IF rets[n].solution # None
         THEN Append(Results(rets, n - 1), rets[n].metrics)
         ELSE Results(rets, n - 1)

RECURSIVE SumOf(_, _, _)
SumOf(results, field, n) ==
  IF n = 0 THEN 0 ELSE results[n][field] + SumOf(results, field, n - 1)

(* solve_with_multiple_runs after its loop: an average is kept as the pair *)
(* <<sum, len(results)>>; the standard deviations, functions of the        *)
(* measurements alone, are left out                                        *)
MultipleRunsReturn ==
  /\ pc = "call"
  /\ run = MaxRuns
  /\ pc' = "returned"
  /\ LET results == Results(returns, Len(returns))
     IN  avg_metrics' =
           IF results = <<>> THEN None
           ELSE [time |-> <<SumOf(results, "time", Len(results)), Len(results)>>,
                 memory_mb |-> <<SumOf(results, "memory_mb", Len(results)), Len(results)>>,
                 nodes_explored |-> results[1].nodes_explored,
                 total_nodes |-> results[1].total_nodes,
                 solution_length |-> results[1].solution_length,
                 total_cost |-> results[1].total_cost,
                 runs |-> Len(results)]
  /\ UNCHANGED <<board, initial_state, strategy, nodes, frontier, explored,
                 nodes_explored, total_nodes, current, result, board_file, run,
                 returns, objects>>

(* solver = <strategy>Solver(board, initial_state);                        *)
(* solver.solve_with_multiple_runs(MaxRuns)                                *)
RunsInit ==
  /\ strategy \in Strategies
  /\ board_file \in Grids
  /\ board = Board(board_file)
  /\ initial_state = State(board.vehicles)
  /\ run = 0
  /\ returns = <<>>
  /\ avg_metrics = None
  /\ objects = None
  /\ pc = "call"
  /\ nodes = <<>>
  /\ frontier = <<>>
  /\ explored = NoExplored
  /\ nodes_explored = 0
  /\ total_nodes = 0
  /\ current = 0
  /\ result = None

RunsNext ==
  \/ SolveWithMetrics
  \/ MetricsReturn
  \/ MultipleRunsReturn
  \/ Next

RunsSpec == RunsInit /\ [][RunsNext]_vars

(***************************************************************************)
(* main up to the construction of the solver: board = Board(board_file);   *)
(* initial_state = State(board.vehicles), on files of every kind           *)
(***************************************************************************)
(* line.rstrip of the dots: the same board written with short lines *)
RECURSIVE WithoutTrailingDots(_)
WithoutTrailingDots(line) ==
  IF line # <<>> /\ line[Len(line)] = Empty
    THEN WithoutTrailingDots(SubSeq(line, 1, Len(line) - 1)) ELSE line

ShortLines(grid) == [r \in 1 .. Len(grid) |-> WithoutTrailingDots(grid[r])]

(* boards without the target 'X' *)
NoTargetGrids ==
  {GridOf(vs) : vs \in {bs \in SUBSET {Pool[i] : i \in 1 .. PoolSize} :
                          Cardinality(bs) <= MaxBlockers /\ Disjoint(bs)}}

(* files in which the cells of the id 'A' are no run: cells with a gap     *)
(* between them, cells in an L, cells in a square, cells in two rows       *)
Plain == GridOf({Vehicle("X", "h", 0, 2, 2)})

MalformedGrids ==
  { [Plain EXCEPT ![1][1] = "A", ![1][3] = "A"],
    [Plain EXCEPT ![1][1] = "A", ![2][1] = "A", ![2][2] = "A"],
    [Plain EXCEPT ![1][1] = "A", ![1][2] = "A", ![2][1] = "A", ![2][2] = "A"],
    [Plain EXCEPT ![1][2] = "A", ![5][2] = "A"],
    [GridOf({}) EXCEPT ![4][1] = "A", ![4][6] = "A"] }

BoardFiles ==
  LET grids == Grids \cup NoTargetGrids \cup MalformedGrids
  IN  grids \cup {ShortLines(g) : g \in grids}

LoaderInit ==
  /\ board_file \in BoardFiles
  /\ strategy \in Strategies
  /\ board = None
  /\ initial_state = None
  /\ run = 0
  /\ returns = <<>>
  /\ avg_metrics = None
  /\ objects = None
  /\ pc = "load"
  /\ nodes = <<>>
  /\ frontier = <<>>
  /\ explored = NoExplored
  /\ nodes_explored = 0
  /\ total_nodes = 0
  /\ current = 0
  /\ result = None

(* board = Board(board_file): no statement of Board.__init__ or            *)
(* load_from_file raises                                                   *)
LoadBoard ==
  /\ pc = "load"
  /\ board' = Board(board_file)
  /\ pc' = "loaded"
  /\ UNCHANGED <<board_file, run, returns, avg_metrics, objects,
                 initial_state, strategy, nodes, frontier, explored,
                 nodes_explored, total_nodes, current, result>>

(* initial_state = State(board.vehicles) *)
NewState ==
  /\ pc = "loaded"
  /\ initial_state' = State(board.vehicles)
  /\ pc' = "ready"
  /\ UNCHANGED <<board_file, run, returns, avg_metrics, objects,
                 board, strategy, nodes, frontier, explored,
                 nodes_explored, total_nodes, current, result>>

LoaderNext ==
  \/ LoadBoard
  \/ NewState

LoaderSpec == LoaderInit /\ [][LoaderNext]_vars

(***************************************************************************)
(* State.get_successors on objects.  objects.vehicles are the Vehicle      *)
(* objects, objects.dicts the dicts from id to the reference of a Vehicle  *)
(* object, objects.states the State objects, each with the reference of    *)
(* its dict and its stored hash; a reference is an index.  Dict 1 is       *)
(* board.vehicles, which State 1, the initial State, holds as well.        *)
(***************************************************************************)
(* the number of get_successors calls made on the objects of a board *)
MaxCalls == 2

(* the dict d read as a mapping from id to Vehicle value *)
Mapping(o, d) ==
  [i \in 1 .. Len(o.dicts[d]) |-> <<o.dicts[d][i][1], o.vehicles[o.dicts[d][i][2]]>>]

(* the State object s read as a value *)
StateValue(o, s) ==
  [vehicles |-> Mapping(o, o.states[s].vehicles), hash |-> o.states[s].hash]

(* copy.copy: a new dict of the same Vehicle objects *)
ShallowCopy(o, d) == [o EXCEPT !.dicts = Append(@, o.dicts[d])]

(* copy.deepcopy(self.vehicles): a new dict, the last of the store, of new *)
(* Vehicle objects with the values of the old                              *)
DeepCopy(o, d) ==
  [o EXCEPT !.vehicles = @ \o [i \in 1 .. Len(o.dicts[d]) |->
                                 o.vehicles[o.dicts[d][i][2]]],
            !.dicts = Append(@, [i \in 1 .. Len(o.dicts[d]) |->
                                   <<o.dicts[d][i][1], Len(o.vehicles) + i>>])]

(* new_vehicles = copy.deepcopy(self.vehicles);                            *)
(* new_vehicles[vid].x += dx (.y += dy);                                   *)
(* successors.append(State(new_vehicles))                                  *)
AppendSuccessor(o, self, vid, dx, dy) ==
  LET copied == DeepCopy(o, o.states[self].vehicles)
      new_vehicles == Len(copied.dicts)
      ref == Get(copied.dicts[new_vehicles], vid)
      moved == [copied EXCEPT !.vehicles[ref].x = @ + dx, !.vehicles[ref].y = @ + dy]
  IN  [moved EXCEPT
         !.states = Append(@, [vehicles |-> new_vehicles,
                               hash |-> Hash(Mapping(moved, new_vehicles))]),
         !.successors = Append(@, Len(moved.states) + 1)]

(* one probing loop "for i in range(1, n)" from iteration i on: the        *)
(* vehicle is the object of the State's own dict, read in every iteration  *)
RECURSIVE ProbeLoop(_, _, _, _, _, _, _)
ProbeLoop(o, self, item, grid, b, dir, i) ==
  LET vehicle == o.vehicles[item[2]]
      ok == CASE dir = "right" -> i < b.width /\ RightOK(vehicle, grid, b, i)
              [] dir = "left" -> i < b.width /\ LeftOK(vehicle, grid, b, i)
              [] dir = "down" -> i < b.height /\ DownOK(vehicle, grid, b, i)
              [] dir = "up" -> i < b.height /\ UpOK(vehicle, grid, b, i)
      dx == CASE dir = "right" -> 1 [] dir = "left" -> -1 [] OTHER -> 0
      dy == CASE dir = "down" -> 1 [] dir = "up" -> -1 [] OTHER -> 0
  IN  IF ok
        THEN With(AppendSuccessor(o, self, item[1], dx, dy),
                  LAMBDA p : ProbeLoop(p, self, item, grid, b, dir, i + 1))
        ELSE o

(* for vid, vehicle in self.vehicles.items(), from item idx on *)
RECURSIVE VehicleLoop(_, _, _, _, _)
VehicleLoop(o, self, grid, b, idx) ==
  LET d == o.dicts[o.states[self].vehicles]
  IN  IF idx > Len(d) THEN o
      ELSE With(IF o.vehicles[d[idx][2]].orientation = "h"
                  THEN With(ProbeLoop(o, self, d[idx], grid, b, "right", 1),
                            LAMBDA p : ProbeLoop(p, self, d[idx], grid, b, "left", 1))
                  ELSE With(ProbeLoop(o, self, d[idx], grid, b, "down", 1),
                            LAMBDA p : ProbeLoop(p, self, d[idx], grid, b, "up", 1)),
                LAMBDA q : VehicleLoop(q, self, grid, b, idx + 1))

(* board = Board(board_file); initial_state = State(board.vehicles) *)
ObjectsInit ==
  /\ board_file \in Grids
  /\ board = Board(board_file)
  /\ initial_state = State(board.vehicles)
  /\ objects = [vehicles |-> [i \in 1 .. Len(board.vehicles) |-> board.vehicles[i][2]],
                dicts |-> << [i \in 1 .. Len(board.vehicles) |->
                                <<board.vehicles[i][1], i>>] >>,
                states |-> << [vehicles |-> 1, hash |-> Hash(board.vehicles)] >>,
                successors |-> <<>>,
                self |-> 0,
                calls |-> 0]
  /\ strategy = None
  /\ run = 0
  /\ returns = <<>>
  /\ avg_metrics = None
  /\ pc = "objects"
  /\ nodes = <<>>
  /\ frontier = <<>>
  /\ explored = {}
  /\ nodes_explored = 0
  /\ total_nodes = 0
  /\ current = 0
  /\ result = None

(* self.get_successors(board) on a State object there is; the list         *)
(* returned is objects.successors                                          *)
GetSuccessorsCall ==
  /\ pc = "objects"
  /\ objects.calls < MaxCalls
  /\ \E self \in 1 .. Len(objects.states) :
       \E grid \in {CreateGrid(StateValue(objects, self), board)} :
         \E o \in {VehicleLoop([objects EXCEPT !.successors = <<>>, !.self = self],
                               self, grid, board, 1)} :
           objects' = [o EXCEPT !.calls = @ + 1]
  /\ UNCHANGED <<board, initial_state, strategy, pc, nodes, frontier, explored,
                 nodes_explored, total_nodes, current, result,
                 board_file, run, returns, avg_metrics>>

ObjectsSpec == ObjectsInit /\ [][GetSuccessorsCall]_vars

(***************************************************************************)
(* State.__eq__ and State.__hash__ on the number hash() returns.  The      *)
(* searches above keep the frozenset itself as the hash value; here the    *)
(* hash is the 64-bit number CPython 3.11 computes, so that two States    *)
(* are compared exactly as state.py compares them.  A 64-bit word is the   *)
(* tuple of its 8 bytes, lowest first.                                     *)
(***************************************************************************)
(* the word of a number below 2^31 *)
WordOf(n) ==
  <<n % 256, (n \div 256) % 256, (n \div 65536) % 256, (n \div 16777216) % 256,
    0, 0, 0, 0>>

(* x ^ y on bytes *)
XorByte(x, y) ==
  ((x + y) % 2)
  + 2 * (((x \div 2) + (y \div 2)) % 2)
  + 4 * (((x \div 4) + (y \div 4)) % 2)
  + 8 * (((x \div 8) + (y \div 8)) % 2)
  + 16 * (((x \div 16) + (y \div 16)) % 2)
  + 32 * (((x \div 32) + (y \div 32)) % 2)
  + 64 * (((x \div 64) + (y \div 64)) % 2)
  + 128 * (((x \div 128) + (y \div 128)) % 2)

(* a ^ b *)
WordXor(a, b) ==
  <<XorByte(a[1], b[1]), XorByte(a[2], b[2]), XorByte(a[3], b[3]), XorByte(a[4], b[4]),
    XorByte(a[5], b[5]), XorByte(a[6], b[6]), XorByte(a[7], b[7]), XorByte(a[8], b[8])>>

(* the bytes of the sums cols[k], carried upwards, modulo 2^64 *)
RECURSIVE Carried(_, _, _, _)
Carried(cols, k, carry, acc) ==
  IF k > 8 THEN acc
  ELSE With(cols[k] + carry,
            LAMBDA c : Carried(cols, k + 1, c \div 256, Append(acc, c % 256)))

(* a + b modulo 2^64 *)
WordAdd(a, b) ==
  Carried(<<a[1] + b[1], a[2] + b[2], a[3] + b[3], a[4] + b[4],
            a[5] + b[5], a[6] + b[6], a[7] + b[7], a[8] + b[8]>>, 1, 0, <<>>)

(* a * b modulo 2^64 *)
WordMul(a, b) ==
  Carried(<<a[1] * b[1],
            a[1] * b[2] + a[2] * b[1],
            a[1] * b[3] + a[2] * b[2] + a[3] * b[1],
            a[1] * b[4] + a[2] * b[3] + a[3] * b[2] + a[4] * b[1],
            a[1] * b[5] + a[2] * b[4] + a[3] * b[3] + a[4] * b[2] + a[5] * b[1],
            a[1] * b[6] + a[2] * b[5] + a[3] * b[4] + a[4] * b[3] + a[5] * b[2]
              + a[6] * b[1],
            a[1] * b[7] + a[2] * b[6] + a[3] * b[5] + a[4] * b[4] + a[5] * b[3]
              + a[6] * b[2] + a[7] * b[1],
            a[1] * b[8] + a[2] * b[7] + a[3] * b[6] + a[4] * b[5] + a[5] * b[4]
              + a[6] * b[3] + a[7] * b[2] + a[8] * b[1]>>, 1, 0, <<>>)

(* byte i of a word, 0 outside it *)
ByteAt(a, i) == IF i \in 1 .. 8 THEN a[i] ELSE 0

(* a << (8 * q + r) modulo 2^64, with p = 2^r *)
ShiftLeft(a, q, p) ==
  [i \in 1 .. 8 |->
    ((ByteAt(a, i - q) * p) % 256) + ((ByteAt(a, i - q - 1) * p) \div 256)]

(* a >> (8 * q + r), with p = 2^r *)
ShiftRight(a, q, p) ==
  [i \in 1 .. 8 |->
    (ByteAt(a, i + q) \div p) + (((ByteAt(a, i + q + 1) * 256) \div p) % 256)]

(* a function on 1 .. 8 written out as a tuple *)
Tuple8(f) == <<f[1], f[2], f[3], f[4], f[5], f[6], f[7], f[8]>>

(* the primes of tuplehash *)
(* _PyHASH_XXPRIME_1 = 11400714785074694791 *)
XXPRIME_1 == <<135, 202, 235, 133, 177, 121, 55, 158>>
(* _PyHASH_XXPRIME_2 = 14029467366897019727 *)
XXPRIME_2 == <<79, 235, 212, 39, 61, 174, 178, 194>>
(* _PyHASH_XXPRIME_5 = 2870177450012600261 *)
XXPRIME_5 == <<197, 103, 86, 22, 47, 235, 212, 39>>
(* _PyHASH_XXPRIME_5 ^ 3527539 *)
XXPRIME_5_XOR == <<182, 180, 99, 22, 47, 235, 212, 39>>

(* _PyHASH_XXROTATE(x) = (x << 31) | (x >> 33) *)
XXROTATE(x) ==
  With(Tuple8(ShiftLeft(x, 3, 128)),
       LAMBDA hi : With(Tuple8(ShiftRight(x, 4, 2)),
                        LAMBDA lo : <<hi[1] + lo[1], hi[2] + lo[2], hi[3] + lo[3],
                                      hi[4] + lo[4], hi[5] + lo[5], hi[6] + lo[6],
                                      hi[7] + lo[7], hi[8] + lo[8]>>))

(* tuplehash: the loop over the lanes from lane i on *)
RECURSIVE TupleLanes(_, _, _)
TupleLanes(lanes, i, acc) ==
  IF i > Len(lanes) THEN acc
  ELSE With(WordMul(XXROTATE(WordAdd(acc, WordMul(lanes[i], XXPRIME_2))), XXPRIME_1),
            LAMBDA next : TupleLanes(lanes, i + 1, next))

(* tuplehash of a tuple whose items hash to the lanes (the result is never *)
(* -1 for the tuples hashed here)                                          *)
TupleHash(lanes) ==
  With(TupleLanes(lanes, 1, XXPRIME_5),
       LAMBDA acc : WordAdd(acc, WordXor(WordOf(Len(lanes)), XXPRIME_5_XOR)))

(* _shuffle_bits(h) = ((h ^ 89869747) ^ (h << 16)) * 3644798167 *)
ShuffleBits(h) ==
  WordMul(WordXor(WordXor(h, WordOf(89869747)), Tuple8(ShiftLeft(h, 2, 1))),
          <<215, 52, 63, 217, 0, 0, 0, 0>>)

(* hash ^= _shuffle_bits(entry->hash) over the entries from entry i on *)
RECURSIVE XorEntries(_, _, _)
XorEntries(entries, i, hash) ==
  IF i > Len(entries) THEN hash
  ELSE With(WordXor(hash, ShuffleBits(entries[i])),
            LAMBDA next : XorEntries(entries, i + 1, next))

(* frozenset_hash of a frozenset whose elements hash to the entries (the   *)
(* result is never -1 for the sets hashed here)                            *)
FrozensetHash(entries) ==
  With(WordXor(XorEntries(entries, 1, WordOf(0)),
               WordMul(WordOf(Len(entries) + 1), WordOf(1927868237))),
       LAMBDA h :
         With(WordXor(h, WordXor(Tuple8(ShiftRight(h, 1, 8)), Tuple8(ShiftRight(h, 3, 2)))),
              LAMBDA g : WordAdd(WordMul(g, WordOf(69069)), WordOf(907133923))))

(* hash() of the one-character strings of the boards, with PYTHONHASHSEED=0 *)
StrHash(c) ==
  CASE c = "2" -> <<77, 146, 42, 190, 72, 194, 34, 20>>
    [] c = "A" -> <<134, 162, 153, 242, 24, 22, 209, 235>>
    [] c = "B" -> <<145, 78, 49, 109, 78, 119, 53, 239>>
    [] c = "J" -> <<66, 93, 166, 52, 103, 26, 23, 180>>
    [] c = "Q" -> <<134, 237, 182, 23, 228, 207, 34, 55>>
    [] c = "X" -> <<196, 116, 138, 93, 82, 244, 172, 120>>
    [] c = "h" -> <<233, 240, 6, 1, 246, 217, 161, 221>>
    [] c = "j" -> <<24, 147, 224, 158, 100, 149, 231, 53>>
    [] c = "o" -> <<22, 88, 240, 3, 96, 242, 26, 174>>
    [] c = "q" -> <<98, 241, 100, 62, 23, 68, 95, 158>>
    [] c = "t" -> <<236, 163, 63, 42, 69, 80, 85, 98>>
    [] c = "v" -> <<149, 5, 211, 238, 239, 243, 167, 144>>

(* Vehicle.__hash__: hash((self.id, self.orientation, self.x, self.y,      *)
(* self.length)); hash(n) is n for the small numbers of a board            *)
VehicleHash(v) ==
  TupleHash(<<StrHash(v.id), StrHash(v.orientation), WordOf(v.x), WordOf(v.y),
              WordOf(v.length)>>)

(* hash of the item (vid, vehicle) of vehicles.items() *)
ItemHash(item) == TupleHash(<<StrHash(item[1]), VehicleHash(item[2])>>)

RECURSIVE ItemHashes(_, _, _)
ItemHashes(vehicles, i, acc) ==
  IF i > Len(vehicles) THEN acc
  ELSE With(ItemHash(vehicles[i]),
            LAMBDA h : ItemHashes(vehicles, i + 1, Append(acc, h)))

(* hash(frozenset(self.vehicles.items())) *)
PyHash(vehicles) == FrozensetHash(ItemHashes(vehicles, 1, <<>>))

(* State.__init__ with the hash as a number *)
PyState(vehicles) == [vehicles |-> vehicles, hash |-> PyHash(vehicles)]

(* the vehicles dict with its ids inserted in the opposite order *)
Reversed(vehicles) ==
  [i \in 1 .. Len(vehicles) |-> vehicles[Len(vehicles) + 1 - i]]

(* two boards of five vehicles each, in the order of insertion *)
BoardJ ==
  << <<"j", Vehicle("j", "v", 2, 3, 2)>>, <<"B", Vehicle("B", "h", 1, 5, 4)>>,
     <<"q", Vehicle("q", "h", 3, 3, 1)>>, <<"o", Vehicle("o", "h", 2, 2, 4)>>,
     <<"X", Vehicle("X", "h", 0, 0, 2)>> >>

BoardT ==
  << <<"t", Vehicle("t", "h", 1, 5, 3)>>, <<"J", Vehicle("J", "h", 1, 4, 1)>>,
     <<"Q", Vehicle("Q", "h", 1, 3, 4)>>, <<"2", Vehicle("2", "v", 5, 1, 4)>>,
     <<"X", Vehicle("X", "h", 0, 0, 2)>> >>

(* a board of two vehicles, and the same board after A went down one cell *)
BoardA == << <<"X", Vehicle("X", "h", 0, 2, 2)>>, <<"A", Vehicle("A", "v", 4, 1, 2)>> >>

BoardADown == << <<"X", Vehicle("X", "h", 0, 2, 2)>>, <<"A", Vehicle("A", "v", 4, 2, 2)>> >>

(* the vehicle mappings two States are made of *)
EqMappings ==
  {BoardJ, Reversed(BoardJ), BoardT, Reversed(BoardT),
   BoardA, Reversed(BoardA), BoardADown, Reversed(BoardADown)}

(* two vehicle dicts, no State made of them yet *)
EqInit ==
  /\ \E left \in EqMappings : \E right \in EqMappings :
       objects = [left |-> left, right |-> right, states |-> <<>>,
                  equal |-> <<>>, found |-> <<>>]
  /\ board_file = None
  /\ board = None
  /\ initial_state = None
  /\ strategy = None
  /\ run = 0
  /\ returns = <<>>
  /\ avg_metrics = None
  /\ pc = "eq"
  /\ nodes = <<>>
  /\ frontier = <<>>
  /\ explored = {}
  /\ nodes_explored = 0
  /\ total_nodes = 0
  /\ current = 0
  /\ result = None

(* State(left), State(right) *)
NewStates ==
  /\ pc = "eq"
  /\ objects.states = <<>>
  /\ \E s \in {PyState(objects.left)} : \E t \in {PyState(objects.right)} :
       objects' = [objects EXCEPT !.states = <<s, t>>]
  /\ UNCHANGED <<board_file, run, returns, avg_metrics, board, initial_state, strategy,
                 pc, nodes, frontier, explored, nodes_explored, total_nodes, current,
                 result>>

(* State(left) == State(right) *)
CompareStates ==
  /\ pc = "eq"
  /\ objects.states # <<>>
  /\ objects.equal = <<>>
  /\ objects' = [objects EXCEPT
                   !.equal = <<StateEq(objects.states[1], objects.states[2])>>]
  /\ UNCHANGED <<board_file, run, returns, avg_metrics, board, initial_state, strategy,
                 pc, nodes, frontier, explored, nodes_explored, total_nodes, current,
                 result>>

(* explored = {State(left)}; State(right) in explored *)
FindInExplored ==
  /\ pc = "eq"
  /\ objects.states # <<>>
  /\ objects.found = <<>>
  /\ explored' = SetAdd(explored, objects.states[1])
  /\ objects' = [objects EXCEPT
                   !.found = <<InExplored(objects.states[2], explored')>>]
  /\ UNCHANGED <<board_file, run, returns, avg_metrics, board, initial_state, strategy,
                 pc, nodes, frontier, nodes_explored, total_nodes, current, result>>

EqNext == NewStates \/ CompareStates \/ FindInExplored

EqSpec == EqInit /\ [][EqNext]_vars

(***************************************************************************)
(* UcsSolver.solve and AStarSolver.solve alone, on the boards of Grids and *)
(* on a board where a State is first reached at a cost above its least     *)
(* and pushed again when the cheaper way is found.                         *)
(***************************************************************************)
CheaperLater ==
  {Vehicle("C", "h", 1, 0, 1), Vehicle("D", "v", 2, 1, 4), Vehicle("B", "v", 3, 1, 4),
   Vehicle("X", "h", 0, 3, 2), Vehicle("A", "h", 4, 4, 2)}

CostInit ==
  /\ strategy \in {"ucs", "astar"}
  /\ board_file \in Grids \cup {GridOf(CheaperLater)}
  /\ board = Board(board_file)
  /\ initial_state = State(board.vehicles)
  /\ run = 0
  /\ returns = <<>>
  /\ avg_metrics = None
  /\ objects = None
  /\ pc = "solve"
  /\ nodes = <<>>
  /\ frontier = <<>>
  /\ explored = NoExplored
  /\ nodes_explored = 0
  /\ total_nodes = 0
  /\ current = 0
  /\ result = None

CostNext ==
  \/ UcsStart
  \/ UcsIterate
  \/ AStarStart
  \/ AStarIterate
  \/ ReturnNone

CostSpec == CostInit /\ [][CostNext]_vars

(***************************************************************************)
(* evaluate_algorithms.py: InstrumentedSolver replaces solve() of a new    *)
(* solver by its own copy of the search loop, which counts the Nodes taken *)
(* from the frontier in solver._nodes_expanded (objects.nodes_expanded).   *)
(* The core solve() runs first on the same board, and what it returned is  *)
(* kept in returns for comparison.                                         *)
(***************************************************************************)
(* if moved_vehicle_id: None and the empty string count as false *)
Truthy_Never(moved_vehicle_id) == FALSE

Truthy(moved_vehicle_id) == None # moved_vehicle_id /\ moved_vehicle_id # ""

(* the loop "for vid, v in current_node.state.vehicles.items()" of the     *)
(* harness: None if no Vehicle differs                                     *)
CountMovedVehicleId(parent_state, successor_state) ==
  LET differing == {i \in 1 .. Len(parent_state.vehicles) :
                      ~VehicleEq(parent_state.vehicles[i][2],
                                 Get(successor_state.vehicles,
                                     parent_state.vehicles[i][1]))}
  IN  IF differing = {} THEN None
      ELSE parent_state.vehicles[CHOOSE i \in differing :
                                   \A j \in differing : i <= j][1]

(* _count_bfs_nodes: the for loop over the successors of current_node *)
RECURSIVE CountBfsExpand(_, _, _, _, _)
CountBfsExpand(b, succs, i, current_node, s) ==
  IF i > Len(succs) THEN s
  ELSE IF InExplored(succs[i], s.explored)
    THEN CountBfsExpand(b, succs, i + 1, current_node, s)
  ELSE LET ns == Append(s.nodes, Node(succs[i], current_node, 0))
       IN  IF IsGoalState(succs[i], b)
             THEN Search(ns, s.frontier, s.explored, s.total_nodes, Len(ns))
             ELSE With(Search(ns, Append(s.frontier, Len(ns)),
                              SetAdd(s.explored, succs[i]), s.total_nodes, 0),
                       LAMBDA t : CountBfsExpand(b, succs, i + 1, current_node, t))

(* _count_dfs_nodes: the for loop over the successors of current_node *)
RECURSIVE CountDfsExpand(_, _, _, _, _)
CountDfsExpand(b, succs, i, current_node, s) ==
  IF i > Len(succs) THEN s
  ELSE IF InExplored(succs[i], s.explored)
    THEN CountDfsExpand(b, succs, i + 1, current_node, s)
  ELSE LET ns == Append(s.nodes, Node(succs[i], current_node, 0))
       IN  IF IsGoalState(succs[i], b)
             THEN Search(ns, s.frontier, s.explored, s.total_nodes, Len(ns))
             ELSE With(Search(ns, Append(s.frontier, Len(ns)),
                              SetAdd(s.explored, succs[i]), s.total_nodes, 0),
                       LAMBDA t : CountDfsExpand(b, succs, i + 1, current_node, t))

(* _count_ucs_nodes: the for loop over the successors of current_node *)
RECURSIVE CountUcsExpand(_, _, _, _, _)
CountUcsExpand(b, succs, i, current_node, s) ==
  IF i > Len(succs) THEN s
  ELSE LET moved_vehicle_id == CountMovedVehicleId(s.nodes[current_node].state, succs[i])
           new_cost == s.nodes[current_node].path_cost
                         + Get(succs[i].vehicles, moved_vehicle_id).length
           ns == Append(s.nodes, Node(succs[i], current_node, new_cost))
       IN  IF Truthy(moved_vehicle_id) /\ Cheaper(s.explored, succs[i], new_cost)
             THEN With(Search(ns, HeapPush(ns, "ucs", s.frontier, Len(ns)),
                              DictSet(s.explored, succs[i], new_cost),
                              s.total_nodes, 0),
                       LAMBDA t : CountUcsExpand(b, succs, i + 1, current_node, t))
             ELSE CountUcsExpand(b, succs, i + 1, current_node, s)

(* _count_astar_nodes: the for loop over the successors of current_node *)
RECURSIVE CountAStarExpand(_, _, _, _, _)
CountAStarExpand(b, succs, i, current_node, s) ==
  IF i > Len(succs) THEN s
  ELSE LET moved_vehicle_id == CountMovedVehicleId(s.nodes[current_node].state, succs[i])
           new_cost == s.nodes[current_node].path_cost
                         + Get(succs[i].vehicles, moved_vehicle_id).length
           ns == Append(s.nodes, Node(succs[i], current_node, new_cost))
           priority == new_cost + BlockingHeuristic(succs[i], b)
       IN  IF Truthy(moved_vehicle_id) /\ Cheaper(s.explored, succs[i], new_cost)
             THEN With(Search(ns,
                              HeapPush(ns, "astar", s.frontier,
                                       <<priority, Len(ns)>>),
                              DictSet(s.explored, succs[i], new_cost),
                              s.total_nodes, 0),
                       LAMBDA t : CountAStarExpand(b, succs, i + 1, current_node, t))
             ELSE CountAStarExpand(b, succs, i + 1, current_node, s)

(* solver = BfsSolver(board, initial_state), ... and the core solve() *)
HarnessInit ==
  /\ strategy \in Strategies
  /\ board_file \in Grids
  /\ board = Board(board_file)
  /\ initial_state = State(board.vehicles)
  /\ run = 0
  /\ returns = <<>>
  /\ avg_metrics = None
  /\ objects = [nodes_expanded |-> 0]
  /\ pc = "solve"
  /\ nodes = <<>>
  /\ frontier = <<>>
  /\ explored = NoExplored
  /\ nodes_explored = 0
  /\ total_nodes = 0
  /\ current = 0
  /\ result = None

(* InstrumentedSolver.solve_with_metrics up to solver.solve(): a new       *)
(* solver with _nodes_expanded = 0 and solve patched                       *)
InstrumentedCall ==
  /\ pc = "done"
  /\ returns = <<>>
  /\ returns' = <<[solution |-> result, nodes_explored |-> nodes_explored]>>
  /\ objects' = [nodes_expanded |-> 0]
  /\ nodes_explored' = 0
  /\ total_nodes' = 0
  /\ nodes' = <<>>
  /\ frontier' = <<>>
  /\ explored' = NoExplored
  /\ current' = 0
  /\ result' = None
  /\ pc' = "count"
  /\ UNCHANGED <<board_file, run, avg_metrics, board, initial_state, strategy>>

(* the result of one pass of a while loop of the harness whose for loop    *)
(* ended in s                                                              *)
CountAfterExpand(s) ==
  /\ nodes' = s.nodes
  /\ frontier' = s.frontier
  /\ explored' = s.explored
  /\ IF s.goal # 0
       THEN result' = ReconstructPath(s.nodes, s.goal) /\ pc' = "counted"
       ELSE UNCHANGED <<result, pc>>

(* _count_bfs_nodes, _count_dfs_nodes: up to the while loop *)
CountUninformedStart(kind) ==
  /\ pc = "count"
  /\ strategy = kind
  /\ nodes' = <<Node(initial_state, 0, 0)>>
  /\ IF IsGoalState(initial_state, board)
       THEN /\ result' = ReconstructPath(nodes', 1)
            /\ pc' = "counted"
            /\ UNCHANGED <<frontier, explored>>
       ELSE /\ frontier' = <<1>>
            /\ explored' = {initial_state}
            /\ pc' = "counting"
            /\ UNCHANGED result
  /\ UNCHANGED <<board_file, run, returns, avg_metrics, objects, board, initial_state,
                 strategy, nodes_explored, total_nodes, current>>

CountBfsStart == CountUninformedStart("bfs")

CountDfsStart == CountUninformedStart("dfs")

(* _count_bfs_nodes: one pass of the while loop *)
CountBfsIterate ==
  /\ pc = "counting"
  /\ strategy = "bfs"
  /\ frontier # <<>>
  /\ current' = Head(frontier)
  /\ objects' = [objects EXCEPT !.nodes_expanded = @ + 1]
  /\ \E succs \in {GetSuccessors(nodes[Head(frontier)].state, board)} :
       \E s \in {CountBfsExpand(board, succs, 1, Head(frontier),
                                 Search(nodes, Tail(frontier), explored, total_nodes, 0))} :
         CountAfterExpand(s)
  /\ UNCHANGED <<board_file, run, returns, avg_metrics, board, initial_state, strategy,
                 nodes_explored, total_nodes>>

(* _count_dfs_nodes: one pass of the while loop *)
CountDfsIterate ==
  /\ pc = "counting"
  /\ strategy = "dfs"
  /\ frontier # <<>>
  /\ current' = frontier[Len(frontier)]
  /\ objects' = [objects EXCEPT !.nodes_expanded = @ + 1]
  /\ \E succs \in {GetSuccessors(nodes[frontier[Len(frontier)]].state, board)} :
       \E s \in {CountDfsExpand(board, succs, 1, frontier[Len(frontier)],
                                 Search(nodes, SubSeq(frontier, 1, Len(frontier) - 1),
                                        explored, total_nodes, 0))} :
         CountAfterExpand(s)
  /\ UNCHANGED <<board_file, run, returns, avg_metrics, board, initial_state, strategy,
                 nodes_explored, total_nodes>>

(* _count_ucs_nodes: up to the while loop *)
CountUcsStart ==
  /\ pc = "count"
  /\ strategy = "ucs"
  /\ nodes' = <<Node(initial_state, 0, 0)>>
  /\ frontier' = <<1>>
  /\ explored' = [e \in {initial_state} |-> 0]
  /\ pc' = "counting"
  /\ UNCHANGED <<board_file, run, returns, avg_metrics, objects, board, initial_state,
                 strategy, nodes_explored, total_nodes, current, result>>

(* _count_astar_nodes: up to the while loop *)
CountAStarStart ==
  /\ pc = "count"
  /\ strategy = "astar"
  /\ nodes' = <<Node(initial_state, 0, 0)>>
  /\ frontier' = << <<BlockingHeuristic(initial_state, board), 1>> >>
  /\ explored' = [e \in {initial_state} |-> 0]
  /\ pc' = "counting"
  /\ UNCHANGED <<board_file, run, returns, avg_metrics, objects, board, initial_state,
                 strategy, nodes_explored, total_nodes, current, result>>

(* _count_ucs_nodes: one pass of the while loop *)
CountUcsIterate ==
  /\ pc = "counting"
  /\ strategy = "ucs"
  /\ frontier # <<>>
  /\ objects' = [objects EXCEPT !.nodes_expanded = @ + 1]
  /\ \E popped \in {HeapPop(nodes, "ucs", frontier)} :
         /\ current' = popped[1]
         /\ IF IsGoalState(nodes[popped[1]].state, board)
              THEN /\ result' = ReconstructPath(nodes, popped[1])
                   /\ pc' = "counted"
                   /\ frontier' = popped[2]
                   /\ UNCHANGED <<nodes, explored>>
              ELSE \E succs \in {GetSuccessors(nodes[popped[1]].state, board)} :
                     \E s \in {CountUcsExpand(board, succs, 1, popped[1],
                                               Search(nodes, popped[2], explored,
                                                      total_nodes, 0))} :
                       CountAfterExpand(s)
  /\ UNCHANGED <<board_file, run, returns, avg_metrics, board, initial_state, strategy,
                 nodes_explored, total_nodes>>

(* _count_astar_nodes: one pass of the while loop *)
CountAStarIterate ==
  /\ pc = "counting"
  /\ strategy = "astar"
  /\ frontier # <<>>
  /\ objects' = [objects EXCEPT !.nodes_expanded = @ + 1]
  /\ \E popped \in {HeapPop(nodes, "astar", frontier)} :
     \E current_node \in {popped[1][2]} :
         /\ current' = current_node
         /\ IF IsGoalState(nodes[current_node].state, board)
              THEN /\ result' = ReconstructPath(nodes, current_node)
                   /\ pc' = "counted"
                   /\ frontier' = popped[2]
                   /\ UNCHANGED <<nodes, explored>>
              ELSE \E succs \in {GetSuccessors(nodes[current_node].state, board)} :
                     \E s \in {CountAStarExpand(board, succs, 1, current_node,
                                                 Search(nodes, popped[2], explored,
                                                        total_nodes, 0))} :
                       CountAfterExpand(s)
  /\ UNCHANGED <<board_file, run, returns, avg_metrics, board, initial_state, strategy,
                 nodes_explored, total_nodes>>

(* the while loop of the harness ends on the empty frontier: return None *)
CountReturnNone ==
  /\ pc = "counting"
  /\ frontier = <<>>
  /\ pc' = "counted"
  /\ result' = None
  /\ UNCHANGED <<board_file, run, returns, avg_metrics, objects, board, initial_state,
                 strategy, nodes, frontier, explored, nodes_explored, total_nodes,
                 current>>

HarnessNext ==
  \/ Next
  \/ InstrumentedCall
  \/ CountBfsStart
  \/ CountBfsIterate
  \/ CountDfsStart
  \/ CountDfsIterate
  \/ CountUcsStart
  \/ CountUcsIterate
  \/ CountAStarStart
  \/ CountAStarIterate
  \/ CountReturnNone

HarnessSpec == HarnessInit /\ [][HarnessNext]_vars

(***************************************************************************)
(* The puzzle itself, stated without the code: valid placements, slides,   *)
(* and the cheapest way to a goal.                                         *)
(***************************************************************************)
InBounds(v, b) ==
  \A cell \in Cells(v) : cell[1] \in 0 .. (b.width - 1) /\ cell[2] \in 0 .. (b.height - 1)

NoOverlap(vehicles) ==
  \A i, j \in 1 .. Len(vehicles) :
    i # j => Cells(vehicles[i][2]) \cap Cells(vehicles[j][2]) = {}

ValidPlacement(vehicles, b) ==
  /\ \A i \in 1 .. Len(vehicles) : InBounds(vehicles[i][2], b)
  /\ NoOverlap(vehicles)

(* vehicle i of the mapping shifted by d cells along its orientation axis *)
Shifted(vehicles, i, d) ==
  IF vehicles[i][2].orientation = "h"
    THEN [vehicles EXCEPT ![i][2].x = @ + d]
    ELSE [vehicles EXCEPT ![i][2].y = @ + d]

(* the slides of vehicle i: one cell, into an empty in-bounds cell *)
SlidesOf(vehicles, i, b) ==
  {w \in {Shifted(vehicles, i, 1), Shifted(vehicles, i, -1)} : ValidPlacement(w, b)}

Slides(vehicles, b) ==
  UNION {SlidesOf(vehicles, i, b) : i \in 1 .. Len(vehicles)}

(* the slides that cost k: the length of the vehicle moved, or 1 a move *)
SlidesCosting(vehicles, b, k, unit) ==
  UNION {SlidesOf(vehicles, i, b) :
           i \in {j \in 1 .. Len(vehicles) :
                    k = IF unit THEN 1 ELSE vehicles[j][2].length}}

TargetAtExit(vehicles, b) ==
  \E i \in 1 .. Len(vehicles) :
    /\ vehicles[i][1] = "X"
    /\ vehicles[i][2].x + vehicles[i][2].length - 1 = b.width - 1
    /\ vehicles[i][2].y = Get(b.vehicles, "X").y

MaxLength(b) ==
  CHOOSE m \in {b.vehicles[i][2].length : i \in 1 .. Len(b.vehicles)} :
    \A i \in 1 .. Len(b.vehicles) : b.vehicles[i][2].length <= m

(* levels[c + 1]: the placements whose cheapest slide sequence from start  *)
(* costs exactly c; the sequence ends after MaxLength empty levels         *)
RECURSIVE CostLevels(_, _, _, _, _)
CostLevels(b, unit, levels, seen, maxlen) ==
  LET c == Len(levels)
      next == UNION {UNION {SlidesCosting(w, b, k, unit) : w \in levels[c - k + 1]} :
                       k \in 1 .. (IF c < maxlen THEN c ELSE maxlen)} \ seen
  IN  IF c >= maxlen /\ \A k \in 1 .. maxlen : levels[c - k + 1] = {}
        THEN levels
        ELSE CostLevels(b, unit, Append(levels, next), seen \cup next, maxlen)

Levels(b, start, unit) ==
  CostLevels(b, unit, <<{start}>>, {start}, IF unit THEN 1 ELSE MaxLength(b))

Reachable(b, start) == UNION Range(Levels(b, start, TRUE))

GoalReachable(b, start) == \E w \in Reachable(b, start) : TargetAtExit(w, b)

(* the least cost of a slide sequence from start to a goal *)
MinGoalCost(b, start, unit) ==
  LET levels == Levels(b, start, unit)
      goals == {c \in 1 .. Len(levels) : \E w \in levels[c] : TargetAtExit(w, b)}
  IN  (CHOOSE c \in goals : \A d \in goals : c <= d) - 1

(* the vehicles of w that are placed differently in v *)
Changed(v, w) == {i \in 1 .. Len(v) : v[i] # w[i]}

(* w is v after one slide *)
OneSlide(v, w) ==
  /\ Len(v) = Len(w)
  /\ Cardinality(Changed(v, w)) = 1
  /\ \A i \in Changed(v, w) :
       /\ v[i][1] = w[i][1]
       /\ w[i][2].id = v[i][2].id
       /\ w[i][2].orientation = v[i][2].orientation
       /\ w[i][2].length = v[i][2].length
       /\ IF v[i][2].orientation = "h"
            THEN w[i][2].y = v[i][2].y /\ w[i][2].x - v[i][2].x \in {-1, 1}
            ELSE w[i][2].x = v[i][2].x /\ w[i][2].y - v[i][2].y \in {-1, 1}

(* the sum over the steps of a path of the length of the vehicle moved *)
RECURSIVE StepCostSum(_, _)
StepCostSum(path, n) ==
  IF n <= 1 THEN 0
  ELSE StepCostSum(path, n - 1)
       + (LET i == CHOOSE j \in Changed(path[n - 1].vehicles, path[n].vehicles) : TRUE
          IN  path[n].vehicles[i][2].length)

Returned == pc = "done" /\ result # None

(***************************************************************************)
(* Claims                                                                  *)
(***************************************************************************)
(* the States held by the search: of its Nodes, its explored keys, and the *)
(* successors get_successors returned for the node expanded last           *)
CreatedStates == {nodes[i].state : i \in 1 .. Len(nodes)}

ExploredStates ==
  IF pc = "solve" THEN {}
  ELSE IF strategy \in {"ucs", "astar"} THEN DOMAIN explored ELSE explored

LastSuccessors ==
  IF current = 0 THEN {} ELSE Range(GetSuccessors(nodes[current].state, board))

(* C1: from a valid initial State, every State get_successors returns, and *)
(* every State in a frontier or explored structure, has no two vehicles on *)
(* one cell and every vehicle cell inside the grid.                        *)
C1_SuccessorsValid ==
  \A s \in CreatedStates \cup ExploredStates \cup LastSuccessors :
    ValidPlacement(s.vehicles, board)

(* a vehicle of the expanded State stood against another vehicle and       *)
(* against the wall, and successors were returned                          *)
C1_Witness ==
  /\ current # 0
  /\ Cardinality(LastSuccessors) >= 2
  /\ LET v == nodes[current].state.vehicles
     IN  /\ \E i \in 1 .. Len(v) :
              \E d \in {-1, 1} : ~NoOverlap(Shifted(v, i, d))
         /\ \E i \in 1 .. Len(v) :
              \E d \in {-1, 1} : ~InBounds(Shifted(v, i, d)[i][2], board)

(* C2: a path returned by any strategy starts with the initial State and   *)
(* ends in a State satisfying is_goal_state.                               *)
C2_PathEnds ==
  Returned =>
    /\ Len(result) >= 1
    /\ result[1] = initial_state
    /\ IsGoalState(result[Len(result)], board)

C2_Witness == Returned /\ Len(result) >= 4 /\ strategy = "dfs"

(* C3: consecutive States of a returned path differ in exactly one vehicle, *)
(* moved by exactly one cell along its orientation axis.                    *)
C3_PathSteps ==
  Returned =>
    \A n \in 1 .. (Len(result) - 1) :
      OneSlide(result[n].vehicles, result[n + 1].vehicles)

C3_Witness ==
  /\ Returned
  /\ Len(result) >= 4
  /\ strategy = "astar"
  /\ \E n \in 1 .. (Len(result) - 1) :
       \E i \in Changed(result[n].vehicles, result[n + 1].vehicles) :
         result[n].vehicles[i][1] # "X"

(* C4: the path UcsSolver returns costs the least any slide sequence from  *)
(* the initial State to a goal State costs.                                *)
C4_UcsOptimal ==
  (Returned /\ strategy = "ucs") =>
    StepCostSum(result, Len(result)) = MinGoalCost(board, board.vehicles, FALSE)

(* UCS returned a path with more moves than the shortest solution has *)
C4_Witness ==
  /\ Returned
  /\ strategy = "ucs"
  /\ Len(result) - 1 > MinGoalCost(board, board.vehicles, TRUE)

(* C5: the path AStarSolver returns costs the least achievable, the cost   *)
(* of the path UcsSolver returns on that board.                            *)
C5_AStarOptimal ==
  (Returned /\ strategy = "astar") =>
    StepCostSum(result, Len(result)) = MinGoalCost(board, board.vehicles, FALSE)

(* A* returned a path from a State with two blocking vehicles *)
C5_Witness ==
  /\ Returned
  /\ strategy = "astar"
  /\ BlockingHeuristic(initial_state, board) >= 2
  /\ StepCostSum(result, Len(result)) > 8

(* C6: from an initial State that is a goal State every strategy returns   *)
(* the path of that one State.                                             *)
C6_GoalAtStart ==
  (pc = "done" /\ IsGoalState(initial_state, board)) => result = <<initial_state>>

C6_Witness ==
  /\ pc = "done"
  /\ IsGoalState(initial_state, board)
  /\ strategy = "ucs"
  /\ Len(initial_state.vehicles) >= 2

(* C7: solve returns None exactly when no goal State is reachable from the *)
(* initial State by slides.                                                *)
C7_NoneIffUnreachable ==
  pc = "done" => (result = None <=> ~GoalReachable(board, board.vehicles))

C7_Witness ==
  /\ pc = "done"
  /\ result = None
  /\ nodes_explored >= 4
  /\ strategy = "bfs"

(* the number of ways to place the vehicles of the board along their lanes *)
RECURSIVE LanePlacements(_, _)
LanePlacements(b, n) ==
  IF n = 0 THEN 1
  ELSE LanePlacements(b, n - 1)
       * ((IF b.vehicles[n][2].orientation = "h" THEN b.width ELSE b.height)
          - b.vehicles[n][2].length + 1)

(* no path cost of a Node reaches CostCap *)
CostCap(b) == LanePlacements(b, Len(b.vehicles)) * MaxLength(b)

(* the sum of the costs recorded in explored, cost by cost up to c *)
RECURSIVE SumOfCosts(_, _)
SumOfCosts(ex, c) ==
  IF c <= 0 THEN 0
  ELSE c * Cardinality({k \in DOMAIN ex : ex[k] = c}) + SumOfCosts(ex, c - 1)

MaxCost(ex) ==
  CHOOSE c \in {ex[k] : k \in DOMAIN ex} : \A k \in DOMAIN ex : ex[k] <= c

(* what the search has left to do: the States not yet explored, for UCS    *)
(* and A* the cost each explored State may still lose, and the frontier    *)
Remaining ==
  LET n == LanePlacements(board, Len(board.vehicles))
  IN  IF strategy \in {"ucs", "astar"}
        THEN With(MaxCost(explored), LAMBDA c : SumOfCosts(explored, c))
             + (n - Cardinality(DOMAIN explored)) * CostCap(board)
        ELSE n - Cardinality(explored)

Measure ==
  IF pc = "done" THEN 0
  ELSE IF pc = "solve"
    THEN 2 * LanePlacements(board, Len(board.vehicles)) * CostCap(board) + 2
  ELSE 2 * Remaining + Len(frontier) + 1

RECURSIVE Ahead(_, _, _, _, _)
Ahead(vehicles, i, d, b, k) ==
  IF ValidPlacement(Shifted(vehicles, i, d * (k + 1)), b)
    THEN Ahead(vehicles, i, d, b, k + 1) ELSE k

(* the successors get_successors appended for vehicle idx of the State     *)
(* expanded last                                                           *)
EmittedFor(idx) ==
  VehicleSuccessors(nodes[current].state, CreateGrid(nodes[current].state, board),
                    board, idx)

(* C11: for a vehicle with k consecutive empty in-bounds cells ahead in a  *)
(* direction, get_successors emits one successor per valid single-step     *)
(* slide: k one-cell-slide successors for the k cells, each of them a      *)
(* distinct State.                                                         *)
C11_DistinctSlides ==
  current # 0 =>
    \A idx \in 1 .. Len(nodes[current].state.vehicles) :
      LET v == nodes[current].state.vehicles
          out == EmittedFor(idx)
      IN  /\ Len(out) = Ahead(v, idx, 1, board, 0) + Ahead(v, idx, -1, board, 0)
          /\ \A j \in 1 .. Len(out) : OneSlide(v, out[j].vehicles)
          /\ \A j, k \in 1 .. Len(out) : j # k => ~StateEq(out[j], out[k])

(* what the code does emit: for k cells ahead, k times the same State, the *)
(* vehicle moved by one cell                                               *)
C11_SameSlideRepeated ==
  current # 0 =>
    \A idx \in 1 .. Len(nodes[current].state.vehicles) :
      LET v == nodes[current].state.vehicles
          out == EmittedFor(idx)
          fwd == Ahead(v, idx, 1, board, 0)
      IN  /\ Len(out) = fwd + Ahead(v, idx, -1, board, 0)
          /\ \A j \in 1 .. Len(out) :
               out[j] = State(Shifted(v, idx, IF j <= fwd THEN 1 ELSE -1))

(* a vehicle of the expanded State had three empty cells ahead             *)
C11_Witness ==
  /\ current # 0
  /\ \E idx \in 1 .. Len(nodes[current].state.vehicles) :
       /\ Ahead(nodes[current].state.vehicles, idx, 1, board, 0) >= 3
       /\ Len(EmittedFor(idx)) >= 3

(* C12: the set of States get_successors returns is exactly the set of     *)
(* States obtained from the current State by one legal slide of one        *)
(* vehicle: none missing, none extra.                                      *)
C12_SuccessorsExact ==
  current # 0 =>
    LastSuccessors = {State(w) : w \in Slides(nodes[current].state.vehicles, board)}

(* the expanded State has a vehicle that cannot move at all, one that can  *)
(* move both ways, and one with two cells ahead                            *)
C12_Witness ==
  /\ current # 0
  /\ LET v == nodes[current].state.vehicles
         n == Len(v)
     IN  /\ \E i \in 1 .. n : SlidesOf(v, i, board) = {}
         /\ \E i \in 1 .. n : Cardinality(SlidesOf(v, i, board)) = 2
         /\ \E i \in 1 .. n : \E d \in {-1, 1} : Ahead(v, i, d, board, 0) >= 2
         /\ Cardinality(LastSuccessors) >= 3

(* C13: is_goal_state is true exactly when the vehicle 'X' has             *)
(* x + length - 1 equal to the goal_pos column and y equal to the goal_pos *)
(* row, where goal_pos is (board width - 1, row of X in the initial        *)
(* configuration).                                                         *)
C13_GoalTest ==
  /\ board.goal_pos = <<board.width - 1, Get(initial_state.vehicles, "X").y>>
  /\ \A s \in CreatedStates \cup LastSuccessors :
       IsGoalState(s, board) <=>
         LET X == Get(s.vehicles, "X")
         IN  /\ X.x + X.length - 1 = board.width - 1
             /\ X.y = Get(initial_state.vehicles, "X").y

(* on a board whose target is not in row 2, the search created a State     *)
(* that passes the test and one that fails it                              *)
C13_Witness ==
  /\ Get(initial_state.vehicles, "X").y # 2
  /\ \E s \in CreatedStates : IsGoalState(s, board)
  /\ \E s \in CreatedStates : ~IsGoalState(s, board)

(* the values of a metrics dict that do not come from a clock or from the  *)
(* memory allocator                                                        *)
Counted(r) ==
  <<r.solution # None, r.metrics.solution_length, r.metrics.total_cost,
    r.metrics.nodes_explored, r.metrics.total_nodes>>

(* C14: running the same strategy twice on equal Boards and equal initial  *)
(* States, on fresh solver instances or by repeated solve_with_metrics     *)
(* calls on one instance, yields equal move count, equal cost, equal       *)
(* nodes_explored and equal total_nodes.                                   *)
C14_RunsAgree ==
  /\ \A i, j \in 1 .. Len(returns) :
       /\ Counted(returns[i]) = Counted(returns[j])
       /\ returns[i].solution = returns[j].solution
  /\ (pc = "returned" /\ Results(returns, Len(returns)) # <<>>) =>
       \A i \in 1 .. Len(returns) :
         /\ avg_metrics.nodes_explored = returns[i].metrics.nodes_explored
         /\ avg_metrics.total_nodes = returns[i].metrics.total_nodes
         /\ avg_metrics.solution_length = returns[i].metrics.solution_length
         /\ avg_metrics.total_cost = returns[i].metrics.total_cost

(* two runs of one board returned a path of at least three moves after     *)
(* expanding nodes, with different measurements of time                    *)
C14_Witness ==
  /\ Len(returns) >= 2
  /\ returns[1].metrics.solution_length >= 4
  /\ returns[1].metrics.nodes_explored >= 3
  /\ returns[1].metrics.time # returns[2].metrics.time
  /\ pc = "returned"

(* the board of C15: the target at the left of row 2, a vertical vehicle   *)
(* of length 2 in column 4, rows 1 and 2                                   *)
BlockedExit == GridOf({Vehicle("X", "h", 0, 2, 2), Vehicle("A", "v", 4, 1, 2)})

(* the number of steps of a path in which the vehicle id is moved *)
MovesOf(path, id) ==
  Cardinality({n \in 2 .. Len(path) :
                 Get(path[n].vehicles, id) # Get(path[n - 1].vehicles, id)})

(* C15: on the board with the target X (horizontal, length 2) at (0,2) and *)
(* one vertical blocker of length 2 in column 4, rows 1-2, BFS and DFS     *)
(* return a path; UCS and A* return the minimum-cost path, which moves the *)
(* blocker and slides the target 4 cells, its cost being the sum over the  *)
(* steps of the length of the vehicle moved.                               *)
C15_BlockedExit ==
  (board_file = BlockedExit /\ pc = "done") =>
    /\ result # None
    /\ strategy \in {"ucs", "astar"} =>
         /\ CalculateTotalCost(strategy, result) = MinGoalCost(board, board.vehicles, FALSE)
         /\ CalculateTotalCost(strategy, result) = StepCostSum(result, Len(result))
         /\ MovesOf(result, "A") >= 1
         /\ MovesOf(result, "X") = 4
         /\ Get(result[Len(result)].vehicles, "X").x = Get(result[1].vehicles, "X").x + 4

(* A* returned on that board: the blocker moved once, up, at cost 2, and   *)
(* the target four times at cost 2 each                                    *)
C15_Witness ==
  /\ board_file = BlockedExit
  /\ Returned
  /\ strategy = "astar"
  /\ MovesOf(result, "A") = 1
  /\ Get(result[Len(result)].vehicles, "A").y = 0
  /\ CalculateTotalCost(strategy, result) = 10

(* C16: in every generated State the set of vehicle ids equals the Board's *)
(* vehicle id set, and each vehicle retains its id, orientation, length    *)
(* and off-axis coordinate; only the on-axis coordinate changes.           *)
C16_VehiclesRetained ==
  \A s \in CreatedStates \cup ExploredStates \cup LastSuccessors :
    /\ Keys(s.vehicles) = Keys(board.vehicles)
    /\ Len(s.vehicles) = Len(board.vehicles)
    /\ \A id \in Keys(board.vehicles) :
         LET v == Get(s.vehicles, id)
             w == Get(board.vehicles, id)
         IN  /\ v.id = id
             /\ v.orientation = w.orientation
             /\ v.length = w.length
             /\ IF w.orientation = "h" THEN v.y = w.y ELSE v.x = w.x

(* a State was generated in which a horizontal and a vertical vehicle both *)
(* stand elsewhere than on the Board                                       *)
C16_Witness ==
  \E s \in CreatedStates :
    /\ \E id \in Keys(board.vehicles) :
         /\ Get(board.vehicles, id).orientation = "h"
         /\ Get(s.vehicles, id).x # Get(board.vehicles, id).x
    /\ \E id \in Keys(board.vehicles) :
         /\ Get(board.vehicles, id).orientation = "v"
         /\ Get(s.vehicles, id).y # Get(board.vehicles, id).y

(* the cells of the file, as written, that hold the character id *)
InputCells(file, id) ==
  UNION {{<<c - 1, r - 1>> : c \in {k \in 1 .. Len(file[r]) : file[r][k] = id}} :
           r \in 1 .. Len(file)}

InputIds(file) ==
  UNION {{file[r][c] : c \in 1 .. Len(file[r])} : r \in 1 .. Len(file)} \ {Empty}

(* the cells are one contiguous run along a row or along a column *)
IsRun(cells) ==
  \E first \in cells :
    \/ cells = {<<first[1] + k, first[2]>> : k \in 0 .. (Cardinality(cells) - 1)}
    \/ cells = {<<first[1], first[2] + k>> : k \in 0 .. (Cardinality(cells) - 1)}

Constructed == pc \in {"loaded", "ready"}

(* C17: constructing a Board from a configuration with no vehicle 'X'      *)
(* fails with an error; the goal position is not silently defaulted.       *)
C17_NoTargetFails ==
  "X" \notin InputIds(board_file) => ~Constructed

(* what the code does: the Board is constructed, its goal at (5, 2) *)
C17_DefaultGoal ==
  (Constructed /\ "X" \notin InputIds(board_file)) => board.goal_pos = <<5, 2>>

(* a Board was constructed from a file without 'X' that has vehicles *)
C17_Witness ==
  /\ Constructed
  /\ "X" \notin InputIds(board_file)
  /\ Len(board.vehicles) >= 2

(* C18: loading a board in which the cells of some vehicle id are not a    *)
(* single contiguous collinear run fails with MalformedBoardError; no      *)
(* Board or Vehicle is produced whose occupied cells differ from the cells *)
(* of that id in the input grid.                                           *)
C18_MalformedFails ==
  Constructed =>
    /\ \A id \in InputIds(board_file) : IsRun(InputCells(board_file, id))
    /\ \A i \in 1 .. Len(board.vehicles) :
         Cells(board.vehicles[i][2]) = InputCells(board_file, board.vehicles[i][1])

(* on files whose ids all stand in runs the Board has their cells *)
C18_RunsLoaded ==
  (Constructed /\ \A id \in InputIds(board_file) : IsRun(InputCells(board_file, id))) =>
    /\ Keys(board.vehicles) = InputIds(board_file)
    /\ \A i \in 1 .. Len(board.vehicles) :
         Cells(board.vehicles[i][2]) = InputCells(board_file, board.vehicles[i][1])

(* a Board was constructed from a file whose 'A' cells stand in an L *)
C18_Witness ==
  /\ Constructed
  /\ ~IsRun(InputCells(board_file, "A"))
  /\ Cardinality(InputCells(board_file, "A")) = 3
  /\ "A" \in Keys(board.vehicles)

(* the Nodes solve() created and never put into its frontier: in BFS and   *)
(* DFS the Node returned as the goal, root or child                        *)
NeverInserted ==
  IF strategy \in {"bfs", "dfs"} /\ Returned THEN 1 ELSE 0

(* the Nodes removed from the frontier: those created that were put into   *)
(* it and are no longer in it                                              *)
Removed == Len(nodes) - NeverInserted - Len(frontier)

(* C19: after solve() returns, nodes_explored equals the number of nodes   *)
(* removed from the frontier during that call and total_nodes equals the   *)
(* number of search nodes created, root included, during that call.        *)
C19_CountersExact ==
  pc = "done" =>
    /\ nodes_explored = Removed
    /\ total_nodes = Len(nodes)

(* what the code keeps: the counters are exact unless BFS or DFS found the *)
(* goal in the initial State, where the root is not counted                *)
C19_RootUncounted ==
  pc = "done" =>
    /\ nodes_explored = Removed
    /\ total_nodes = IF strategy \in {"bfs", "dfs"} /\ IsGoalState(initial_state, board)
                       THEN 0 ELSE Len(nodes)

(* BFS returned the initial State as the path: one Node created, none      *)
(* counted                                                                 *)
C19_Witness ==
  /\ Returned
  /\ strategy = "bfs"
  /\ Len(nodes) = 1
  /\ total_nodes = 0

(* the Nodes that were put into the frontier of BFS or DFS: all but the    *)
(* Node returned as the goal                                               *)
Inserted == 1 .. (Len(nodes) - NeverInserted)

(* C20: in BFS and DFS a State is marked visited when it is inserted into  *)
(* the frontier, so no State is inserted into the frontier more than once; *)
(* a generated child that is a goal is returned at once, without being put *)
(* into the frontier or the visited set.                                   *)
C20_InsertedOnce ==
  (strategy \in {"bfs", "dfs"} /\ pc # "solve") =>
    /\ \A i, j \in Inserted : i # j => ~SameKey(nodes[i].state, nodes[j].state)
    /\ \A i \in Inserted : InExplored(nodes[i].state, explored)
    /\ \A s \in explored : \E i \in Inserted : SameKey(s, nodes[i].state)
    /\ Range(frontier) \subseteq Inserted
    /\ \A m, n \in 1 .. Len(frontier) : m # n => frontier[m] # frontier[n]
    /\ (Returned /\ Len(nodes) > 1) =>
         /\ result[Len(result)] = nodes[Len(nodes)].state
         /\ Len(nodes) \notin Range(frontier)
         /\ ~InExplored(nodes[Len(nodes)].state, explored)

(* DFS returned a goal child while Nodes were waiting in the frontier, and *)
(* get_successors had offered a State more than once                       *)
C20_Witness ==
  /\ Returned
  /\ strategy = "dfs"
  /\ Len(nodes) >= 5
  /\ Len(frontier) >= 2
  /\ \E idx \in 1 .. Len(nodes[current].state.vehicles) : Len(EmittedFor(idx)) >= 2

(* C10: get_successors leaves the State it is called on unchanged: after   *)
(* the call every vehicle of the parent's mapping has its id, orientation, *)
(* x, y and length as before and the stored hash is as before; and the     *)
(* Board's vehicle mapping, which the initial State shares, is unchanged.  *)
C10_ParentUnchanged ==
  /\ [](/\ objects.states[1].vehicles = 1
        /\ Mapping(objects, 1) = board.vehicles
        /\ \A s \in 1 .. Len(objects.states) :
             objects.states[s].hash = Hash(Mapping(objects, objects.states[s].vehicles)))
  /\ [][\A s \in 1 .. Len(objects.states) :
          StateValue(objects', s) = StateValue(objects, s)]_vars

(* get_successors was called on the initial State, which shares its dict   *)
(* with the Board, and then on one of the States it returned, and returned *)
(* three States or more                                                    *)
C10_Witness ==
  /\ objects.calls = 2
  /\ objects.self > 1
  /\ Len(objects.successors) >= 3
  /\ \E s \in 2 .. (objects.self - 1) :
       Mapping(objects, objects.states[s].vehicles)
         # Mapping(objects, objects.states[objects.self].vehicles)

(* the two dicts hold the same pairs of id and Vehicle *)
SameMapping(left, right) == FrozenItems(left) = FrozenItems(right)

(* C9: two States compare equal, and one is found in a set that holds the  *)
(* other, exactly when their vehicle mappings hold the same pairs of id    *)
(* and Vehicle, in whatever order the ids were inserted.                   *)
C9_EqualIffSameMapping ==
  /\ objects.equal # <<>> =>
       objects.equal[1] = SameMapping(objects.left, objects.right)
  /\ objects.found # <<>> =>
       objects.found[1] = SameMapping(objects.left, objects.right)

(* the same pairs inserted in two orders make equal States, one found in   *)
(* a set that holds the other                                              *)
C9_SameMappingEqual ==
  SameMapping(objects.left, objects.right) =>
    /\ objects.equal # <<>> => objects.equal[1]
    /\ objects.found # <<>> => objects.found[1]

(* two States of the same pairs inserted in different orders were compared *)
(* and looked up                                                           *)
C9_Witness ==
  /\ objects.left # objects.right
  /\ SameMapping(objects.left, objects.right)
  /\ objects.equal = <<TRUE>>
  /\ objects.found = <<TRUE>>

(* two States of different mappings compared equal *)
C9_Collision ==
  /\ ~SameMapping(objects.left, objects.right)
  /\ objects.equal = <<TRUE>>
  /\ objects.found = <<TRUE>>

(* the priority of a frontier item of UCS (a Node) or A* (priority, Node) *)
ItemPriority(item) ==
  IF strategy = "ucs" THEN nodes[item].path_cost ELSE item[1]

(* the Node of a frontier item *)
ItemNode(item) == IF strategy = "ucs" THEN item ELSE item[2]

(* the priority the Node was pushed with *)
NodePriority(n) ==
  IF strategy = "ucs" THEN nodes[n].path_cost
  ELSE Priority(nodes[n].path_cost, BlockingHeuristic(nodes[n].state, board))

(* C21: UCS and A* test is_goal_state only on the node taken from the      *)
(* priority queue: the step that returns a path creates no Node and        *)
(* returns the path of the node it popped, and no item left in the         *)
(* frontier has a smaller priority than that node.                         *)
C21_GoalOnPop ==
  /\ []((Returned /\ strategy \in {"ucs", "astar"}) =>
          /\ current # 0
          /\ IsGoalState(nodes[current].state, board)
          /\ result = ReconstructPath(nodes, current)
          /\ \A k \in 1 .. Len(frontier) :
               /\ ItemNode(frontier[k]) # current
               /\ ItemPriority(frontier[k]) >= NodePriority(current))
  /\ [][(strategy \in {"ucs", "astar"} /\ pc = "loop") =>
          /\ (pc' = "done" /\ result' # None) =>
               /\ nodes' = nodes
               /\ \E k \in 1 .. Len(frontier) : ItemNode(frontier[k]) = current'
          /\ (\E n \in (Len(nodes) + 1) .. Len(nodes') :
                IsGoalState(nodes'[n].state, board)) => pc' = "loop"]_vars

(* a path was returned while Nodes of goal States pushed before it, at a   *)
(* higher priority, were still in the frontier                             *)
C21_Witness ==
  /\ Returned
  /\ strategy \in {"ucs", "astar"}
  /\ \E k \in 1 .. Len(frontier) :
       /\ IsGoalState(nodes[ItemNode(frontier[k])].state, board)
       /\ ItemPriority(frontier[k]) > NodePriority(current)

(* the Nodes created so far for the State s *)
NodesOf(s) == {n \in 1 .. Len(nodes) : nodes[n].state = s}

(* the least path_cost of the Nodes created so far for the State s *)
LeastCost(s) ==
  CHOOSE c \in {nodes[n].path_cost : n \in NodesOf(s)} :
    \A n \in NodesOf(s) : c <= nodes[n].path_cost

(* C22: in UCS and A* a Node is created and pushed only for a State with   *)
(* no recorded cost or at a path cost strictly below the recorded one, so  *)
(* explored holds for every State met the least path_cost of its Nodes and *)
(* no entry ever increases.                                                *)
C22_BestKnownCost ==
  /\ []((strategy \in {"ucs", "astar"} /\ pc # "solve") =>
          /\ DOMAIN explored = CreatedStates
          /\ \A s \in DOMAIN explored : explored[s] = LeastCost(s)
          /\ \A n \in 1 .. Len(nodes) : \A m \in 1 .. (n - 1) :
               nodes[m].state = nodes[n].state =>
                 nodes[n].path_cost < nodes[m].path_cost)
  /\ [][(strategy \in {"ucs", "astar"} /\ pc = "loop") =>
          \A s \in DOMAIN explored :
            s \in DOMAIN explored' /\ explored'[s] <= explored[s]]_vars

(* a State was pushed a second time, at a cost below the recorded one, and *)
(* a successor the expanded Node offered at no lower cost than recorded    *)
(* was not pushed                                                          *)
C22_Witness ==
  /\ strategy \in {"ucs", "astar"}
  /\ pc = "loop"
  /\ current # 0
  /\ \E n \in 1 .. Len(nodes) :
       /\ nodes[n].parent = current
       /\ Cardinality(NodesOf(nodes[n].state)) >= 2
  /\ \E s \in LastSuccessors : \A n \in NodesOf(s) : nodes[n].parent # current

(* C23: every pass of the UCS or A* loop takes from the frontier an item   *)
(* of the least priority there, for UCS the path_cost and for A* the       *)
(* path_cost + heuristic, and the path costs of the Nodes UCS expands      *)
(* never decrease from one pass to the next.                               *)
C23_LeastFirst ==
  [][(strategy \in {"ucs", "astar"} /\ pc = "loop" /\ frontier # <<>>) =>
       /\ \E k \in 1 .. Len(frontier) :
            /\ ItemNode(frontier[k]) = current'
            /\ \A j \in 1 .. Len(frontier) :
                 ItemPriority(frontier[k]) <= ItemPriority(frontier[j])
       /\ (strategy = "ucs" /\ current # 0) =>
            nodes[current'].path_cost >= nodes[current].path_cost]_vars

(* a Node was expanded while a Node created before it, of a higher         *)
(* priority, stayed in a frontier of three items or more                   *)
C23_Witness ==
  /\ strategy \in {"ucs", "astar"}
  /\ pc = "loop"
  /\ current # 0
  /\ nodes[current].path_cost > 0
  /\ Len(frontier) >= 3
  /\ \E k \in 1 .. Len(frontier) :
       /\ ItemNode(frontier[k]) < current
       /\ ItemPriority(frontier[k]) > NodePriority(current)

(* the successors of the Node expanded last, in the order returned *)
LastSuccessorList ==
  IF current = 0 THEN <<>> ELSE GetSuccessors(nodes[current].state, board)

(* the place in the expanded State's mapping of the vehicle a successor    *)
(* moved                                                                   *)
MovedIndex(successor_state) ==
  CHOOSE i \in Changed(nodes[current].state.vehicles, successor_state.vehicles) : TRUE

(* the successor moved its vehicle to the right or down *)
Increasing(successor_state) ==
  LET i == MovedIndex(successor_state)
      before == nodes[current].state.vehicles[i][2]
      after == successor_state.vehicles[i][2]
  IN  after.x + after.y > before.x + before.y

(* C24: get_successors returns the successors vehicle by vehicle in the    *)
(* stored order of the mapping, and for one vehicle the moves right or     *)
(* down before the moves left or up.                                       *)
C24_SuccessorOrder ==
  \A succs \in {LastSuccessorList} :
    \A moved \in {[p \in 1 .. Len(succs) |-> MovedIndex(succs[p])]} :
      \A q \in 1 .. Len(succs) : \A p \in 1 .. (q - 1) :
        /\ Cardinality(Changed(nodes[current].state.vehicles, succs[q].vehicles)) = 1
        /\ moved[p] <= moved[q]
        /\ (moved[p] = moved[q] /\ Increasing(succs[q])) => Increasing(succs[p])

(* a State was expanded in which a vehicle moved both ways, a horizontal   *)
(* and a vertical one among them, and a vehicle stored earlier has a later *)
(* id than one stored after it                                             *)
C24_Witness ==
  /\ current # 0
  /\ \E p, q \in 1 .. Len(LastSuccessorList) :
       /\ MovedIndex(LastSuccessorList[p]) = MovedIndex(LastSuccessorList[q])
       /\ Increasing(LastSuccessorList[p])
       /\ ~Increasing(LastSuccessorList[q])
       /\ nodes[current].state.vehicles[MovedIndex(LastSuccessorList[p])][2].orientation = "h"
  /\ \E p, q \in 1 .. Len(LastSuccessorList) :
       /\ MovedIndex(LastSuccessorList[p]) = MovedIndex(LastSuccessorList[q])
       /\ Increasing(LastSuccessorList[p])
       /\ ~Increasing(LastSuccessorList[q])
       /\ nodes[current].state.vehicles[MovedIndex(LastSuccessorList[p])][2].orientation = "v"
  /\ \E p, q \in 1 .. Len(LastSuccessorList) :
       /\ MovedIndex(LastSuccessorList[p]) < MovedIndex(LastSuccessorList[q])
       /\ nodes[current].state.vehicles[MovedIndex(LastSuccessorList[p])][1] = "X"

(* the sum, over the steps of the parent chain from the root to Node n, of *)
(* the length of the vehicle placed differently after the step             *)
RECURSIVE ChainCost(_)
ChainCost(n) ==
  IF nodes[n].parent = 0 THEN 0
  ELSE ChainCost(nodes[n].parent)
       + (LET i == CHOOSE j \in Changed(nodes[nodes[n].parent].state.vehicles,
                                         nodes[n].state.vehicles) : TRUE
          IN  nodes[n].state.vehicles[i][2].length)

(* C25: the path_cost of every Node UCS or A* creates is the sum of the    *)
(* lengths of the vehicles moved along its parent chain, 0 for the root,   *)
(* and the path_cost of the goal Node returned is what                     *)
(* _calculate_total_cost gives for the returned path.                      *)
C25_PathCost ==
  strategy \in {"ucs", "astar"} =>
    /\ \A n \in 1 .. Len(nodes) :
         /\ nodes[n].parent \in 0 .. (n - 1)
         /\ nodes[n].parent # 0 =>
              Cardinality(Changed(nodes[nodes[n].parent].state.vehicles,
                                  nodes[n].state.vehicles)) = 1
         /\ nodes[n].path_cost = ChainCost(n)
    /\ Returned =>
         nodes[current].path_cost = CalculateTotalCost(strategy, result)

(* a path of four moves or more was returned on which vehicles of          *)
(* different lengths moved                                                 *)
C25_Witness ==
  /\ Returned
  /\ strategy \in {"ucs", "astar"}
  /\ Len(result) >= 5
  /\ \E n, m \in 2 .. Len(result) :
       \E i \in Changed(result[n - 1].vehicles, result[n].vehicles) :
         \E j \in Changed(result[m - 1].vehicles, result[m].vehicles) :
           result[n].vehicles[i][2].length # result[m].vehicles[j][2].length

(* the Nodes met following the parent links from Node n, n first, for at   *)
(* most fuel links                                                         *)
RECURSIVE ParentChain(_, _)
ParentChain(n, fuel) ==
  IF n = 0 \/ fuel = 0 THEN <<>>
  ELSE <<n>> \o ParentChain(nodes[n].parent, fuel - 1)

(* C26: in every strategy the parent links of the Nodes created form a     *)
(* tree with the initial Node as its only root: from every Node the links  *)
(* reach the root, whose parent is None, without meeting a Node twice, so  *)
(* that _reconstruct_path ends.                                            *)
C26_ParentTree ==
  \A n \in 1 .. Len(nodes) :
    \A chain \in {ParentChain(n, Len(nodes) + 1)} :
      /\ nodes[n].parent \in 0 .. Len(nodes)
      /\ Len(chain) <= Len(nodes)
      /\ \A i, j \in 1 .. Len(chain) : i # j => chain[i] # chain[j]
      /\ chain[Len(chain)] = 1
      /\ nodes[chain[Len(chain)]].parent = 0
      /\ nodes[1].state = initial_state
      /\ nodes[n].parent = 0 => n = 1

(* a tree of eight Nodes or more with a Node of two children and a Node    *)
(* four links from the root                                                *)
C26_Witness ==
  /\ Len(nodes) >= 8
  /\ \E n, m \in 1 .. Len(nodes) :
       n # m /\ nodes[n].parent = nodes[m].parent /\ nodes[n].parent # 0
  /\ \E n \in 1 .. Len(nodes) : Len(ParentChain(n, Len(nodes) + 1)) >= 5

(* the ids of the vehicles other than the target with a cell on the        *)
(* target's row, right of the target's last cell and not beyond column     *)
(* last                                                                    *)
BlockersUpTo(vehicles, last) ==
  LET target == Get(vehicles, "X")
  IN  {vehicles[i][1] :
         i \in {j \in 1 .. Len(vehicles) :
                  /\ vehicles[j][1] # "X"
                  /\ \E cell \in Cells(vehicles[j][2]) :
                       /\ cell[2] = target.y
                       /\ cell[1] > target.x + target.length - 1
                       /\ cell[1] <= last}}

(* the States A* has computed the heuristic of *)
HeuristicStates ==
  IF strategy = "astar" THEN CreatedStates \cup LastSuccessors ELSE {}

(* C27 as stated: the heuristic of a State is the number of distinct       *)
(* vehicles on cells strictly between the target's last cell and the exit  *)
(* column (the column of goal_pos) on the target's row.                    *)
C27_StrictlyBetween ==
  \A s \in HeuristicStates :
    BlockingHeuristic(s, board)
      = Cardinality(BlockersUpTo(s.vehicles, board.goal_pos[1] - 1))

(* C27 amended: the heuristic of a State is the number of distinct         *)
(* vehicles on the cells of the target's row from just past the target's   *)
(* last cell up to and including the exit column, the last column of the   *)
(* grid; the priority of a frontier entry is the path cost plus that       *)
(* number.                                                                 *)
C27_UpToExit ==
  /\ \A s \in HeuristicStates :
       BlockingHeuristic(s, board)
         = Cardinality(BlockersUpTo(s.vehicles, board.goal_pos[1]))
  /\ (strategy = "astar" /\ pc # "solve") =>
       \A k \in 1 .. Len(frontier) :
         frontier[k][1] = nodes[frontier[k][2]].path_cost
                          + Cardinality(BlockersUpTo(nodes[frontier[k][2]].state.vehicles,
                                                     board.width - 1))

(* A* holds a State with a vehicle in the exit column of the target's row  *)
(* and another vehicle on two cells of that row                            *)
C27_Witness ==
  /\ strategy = "astar"
  /\ \E k \in 1 .. Len(frontier) :
       LET v == nodes[frontier[k][2]].state.vehicles
           target == Get(v, "X")
       IN  /\ BlockersUpTo(v, board.width - 1) # BlockersUpTo(v, board.width - 2)
           /\ \E i \in 1 .. Len(v) :
                /\ v[i][1] # "X"
                /\ Cardinality({cell \in Cells(v[i][2]) :
                                  cell[2] = target.y /\ cell[1] > target.x}) >= 2

(* the heuristic does not exceed the least cost of a slide sequence from   *)
(* the placement to a goal, where there is one, and is 0 on a goal         *)
Admissible(vehicles) ==
  \A h \in {BlockingHeuristic(State(vehicles), board)} :
    /\ h >= 0
    /\ TargetAtExit(vehicles, board) => h = 0
    /\ GoalReachable(board, vehicles) => h <= MinGoalCost(board, vehicles, FALSE)

(* levels[c + 1]: the placements among those reachable from start whose    *)
(* cheapest slide sequence to a goal costs exactly c, counted back from    *)
(* the goals: a slide is undone by the opposite slide of the same vehicle  *)
CostsToGoal(b, start) ==
  LET goals == {w \in Reachable(b, start) : TargetAtExit(w, b)}
  IN  CostLevels(b, FALSE, <<goals>>, goals, MaxLength(b))

(* C28: the blocking heuristic never exceeds the least remaining cost, the *)
(* sum of the lengths of the vehicles moved, from any State reachable from *)
(* the initial State from which a goal is reachable, and is 0 on every     *)
(* goal State: for the State of the Node A* returns, for the initial       *)
(* State, and once the search has ended for every reachable placement.     *)
C28_Admissible ==
  (strategy = "astar" /\ pc = "done") =>
    /\ Admissible(board.vehicles)
    /\ Admissible(nodes[current].state.vehicles)
    /\ \A w \in Reachable(board, board.vehicles) :
         /\ \A v \in Slides(w, board) : w \in Slides(v, board)
         /\ TargetAtExit(w, board) => BlockingHeuristic(State(w), board) = 0
    /\ \A levels \in {CostsToGoal(board, board.vehicles)} :
         /\ \A c \in 1 .. Len(levels) : \A w \in levels[c] :
              BlockingHeuristic(State(w), board) <= c - 1
         /\ GoalReachable(board, board.vehicles) =>
              /\ UNION Range(levels) = Reachable(board, board.vehicles)
              /\ board.vehicles
                   \in levels[MinGoalCost(board, board.vehicles, FALSE) + 1]

(* A* ended on a board on which a reachable placement with two blocking    *)
(* vehicles has a way to a goal, and a goal placement is reachable         *)
C28_Witness ==
  /\ strategy = "astar"
  /\ pc = "done"
  /\ \E w \in Reachable(board, board.vehicles) :
       /\ BlockingHeuristic(State(w), board) >= 2
       /\ GoalReachable(board, w)

(* C29: the path BfsSolver returns has the least number of one-cell moves  *)
(* of any slide sequence from the initial State to a goal State, with the  *)
(* goal tested when a successor is generated, and the path DfsSolver       *)
(* returns has at least that number of moves.                              *)
C29_BfsShortest ==
  Returned =>
    /\ strategy = "bfs" =>
         Len(result) - 1 = MinGoalCost(board, board.vehicles, TRUE)
    /\ strategy = "dfs" =>
         Len(result) - 1 >= MinGoalCost(board, board.vehicles, TRUE)

(* BFS returned a path of three moves or more, its goal Node created in    *)
(* the pass that returned and Nodes left in the frontier                   *)
C29_Witness ==
  /\ Returned
  /\ strategy = "bfs"
  /\ Len(result) >= 4
  /\ nodes[Len(nodes)].state = result[Len(result)]
  /\ nodes[Len(nodes)].parent = current
  /\ frontier # <<>>

(* C30: on every board the search loop of the benchmarking harness for a   *)
(* strategy returns the path, or None, that solve() of the core solver of  *)
(* that strategy returns, and its _nodes_expanded is the nodes_explored of *)
(* a new core solver.                                                      *)
C30_HarnessAgrees ==
  pc = "counted" =>
    /\ result = returns[1].solution
    /\ objects.nodes_expanded = returns[1].nodes_explored

(* core and harness both returned a path of four States or more after six  *)
(* passes of the loop or more                                              *)
C30_Witness ==
  /\ pc = "counted"
  /\ result # None
  /\ Len(result) >= 4
  /\ objects.nodes_expanded >= 6
  /\ strategy \in {"ucs", "astar"}

====
